---- MODULE Spec2Model ----
(***************************************************************************)
(* A model of the LTE-style OFDM link simulator: the TS 36.212 channel     *)
(* coder (CRC attach/check, rate-1/3 convolutional encoder, hard-decision  *)
(* Viterbi decoder), the seeded XOR scrambler and the OFDM engine          *)
(* (modulation, cyclic prefix).  Every library function is an operator     *)
(* computed as the code computes it; the actions call the functions on     *)
(* inputs drawn from bounded sets and keep the results in the variables.   *)
(***************************************************************************)
EXTENDS Integers, Sequences, FiniteSets, TLC

VARIABLES
    pc,        \* which call has just returned ("idle": none)
    arg,       \* the arguments of the call in progress (a record)
    mid,       \* the value handed from the first call of a chain to the next
    res,       \* the value the last call returned
    rng,       \* the state of the process-wide numpy random generator
    metrics,   \* conv_decode_terminated: the path metric of every state
    prev_state,\* conv_decode_terminated: the predecessors recorded so far
    t,         \* conv_decode_terminated: the number of trellis steps done
    cand,      \* conv_decode_terminated: cand0 and cand1 of the last step
    trellis    \* the module-level tables _TRELLIS_NEXT and _TRELLIS_OUT

vars == <<pc, arg, mid, res, rng, metrics, prev_state, t, cand, trellis>>

viterbi == <<metrics, prev_state, t, cand>>

(***************************************************************************)
(* Bounds of the model.                                                    *)
(***************************************************************************)
MaxCrcBits == 3      \* longest payload given to crc_attach
MaxEncBits == 7      \* longest input given to conv_encode
MaxInfoBits == 2     \* longest message sent through the coded link
MaxBurst == 2        \* longest run of coded bits the link inverts anywhere
MaxCut == 1          \* most coded bits the link loses at the end
MaxRawBits == 4      \* longest arbitrary bit array given to the decoder
MaxScrBits == 3      \* longest array given to the scrambler
MaxSeed == 2         \* largest scrambler seed
MaxNoise == 2        \* most samples one noise draw covers
RngMod == 16         \* number of states of the random generator
MaxSyms == 3         \* longest symbol array given to the OFDM modulator
MaxBlocks == 2       \* most blocks of a signal given to the cyclic-prefix step
MaxCpFft == 3        \* largest block length given to the cyclic-prefix step
MaxCrcRaw == 8       \* longest arbitrary bit array given to crc_check
MaxModBits == 7      \* longest bit array given to the constellation mapper
MaxModType == 4      \* largest modulation index tried (0 is tried as well)
MaxTaps == 11        \* largest number of channel taps asked for
MaxChanLen == 2      \* longest signal given to the channel
MaxEqSyms == 4       \* longest symbol array given to the equalizer
SnrPoints == 1       \* signal-to-noise ratios of the curve (10 in the source)
MaxLinkBits == 3     \* longest raw bit array sent over the error-free link
MaxLinkPad == 1      \* most bits the demapper delivers beyond those sent
MaxThreadBits == 2   \* longest array given to a scrambler call that is interleaved

(***************************************************************************)
(* Bit arrays and machine integers.                                        *)
(***************************************************************************)
Bit == {0, 1}

BitSeqs(n) == [1..n -> Bit]

BitSeqsUpTo(n) == UNION {BitSeqs(k) : k \in 0..n}

Zeros(n) == [i \in 1..n |-> 0]

RECURSIVE Pow2(_)
Pow2(n) == IF n = 0 THEN 1 ELSE 2 * Pow2(n - 1)

\* (x >> i) & 1
BitAt(x, i) == (x \div Pow2(i)) % 2

RECURSIVE XorInt(_, _)
XorInt(a, b) ==
    IF a = 0 THEN b
    ELSE IF b = 0 THEN a
    ELSE ((a + b) % 2) + 2 * XorInt(a \div 2, b \div 2)

RECURSIVE AndInt(_, _)
AndInt(a, b) ==
    IF a = 0 \/ b = 0 THEN 0
    ELSE ((a % 2) * (b % 2)) + 2 * AndInt(a \div 2, b \div 2)

RECURSIVE OrInt(_, _)
OrInt(a, b) ==
    IF a = 0 THEN b
    ELSE IF b = 0 THEN a
    ELSE (IF a % 2 = 1 \/ b % 2 = 1 THEN 1 ELSE 0) + 2 * OrInt(a \div 2, b \div 2)

\* int.bit_count
RECURSIVE BitCount(_)
BitCount(v) == IF v = 0 THEN 0 ELSE (v % 2) + BitCount(v \div 2)

(***************************************************************************)
(* CRC attach / check.                                                     *)
(***************************************************************************)
CRCName == {"24A", "24B", "16", "8"}

\* out |= 1 << d for every degree d
RECURSIVE poly_to_int(_)
poly_to_int(degrees) ==
    IF degrees = {} THEN 0
    ELSE LET d == CHOOSE x \in degrees : TRUE
         IN  OrInt(Pow2(d), poly_to_int(degrees \ {d}))

CRC_POLYS ==
    [c \in CRCName |->
        CASE c = "24A" -> [L |-> 24, poly |-> poly_to_int({23, 18, 17, 14, 11, 10, 7, 6, 5, 4, 3, 1, 0})]
          [] c = "24B" -> [L |-> 24, poly |-> poly_to_int({23, 6, 5, 1, 0})]
          [] c = "16"  -> [L |-> 16, poly |-> poly_to_int({12, 5, 0})]
          [] c = "8"   -> [L |-> 8,  poly |-> poly_to_int({7, 4, 3, 1, 0})]]

\* One turn of the shift register on input bit b.
CrcShift(reg, b, L, poly) ==
    LET msb  == BitAt(reg, L - 1)
        fb   == XorInt(msb, b)
        reg1 == (reg * 2) % Pow2(L)
    IN  IF fb # 0 THEN XorInt(reg1, poly) ELSE reg1

\* The register after bits[i..] have been shifted in.
RECURSIVE CrcFeed(_, _, _, _, _)
CrcFeed(reg, bits, i, L, poly) ==
    IF i > Len(bits) THEN reg
    ELSE CHOOSE out \in {CrcFeed(reg1, bits, i + 1, L, poly) :
                            reg1 \in {CrcShift(reg, bits[i], L, poly)}} : TRUE

crc_attach(bits, crc) ==
    LET L      == CRC_POLYS[crc].L
        poly   == CRC_POLYS[crc].poly
        reg1   == CrcFeed(0, bits, 1, L, poly)
        reg2   == CrcFeed(reg1, Zeros(L), 1, L, poly)
        parity == [i \in 1..L |-> BitAt(reg2, L - i)]
    IN  bits \o parity

\* A plausible slip: the size test is <= L, so an input of exactly L bits is
\* refused whole.
crc_check_SizeLeq(bits_with_crc, crc) ==
    LET L    == CRC_POLYS[crc].L
        poly == CRC_POLYS[crc].poly
    IN  IF Len(bits_with_crc) <= L
        THEN [payload |-> bits_with_crc, ok |-> FALSE]
        ELSE [payload |-> SubSeq(bits_with_crc, 1, Len(bits_with_crc) - L),
              ok      |-> CrcFeed(0, bits_with_crc, 1, L, poly) = 0]

crc_check(bits_with_crc, crc) ==
    LET L    == CRC_POLYS[crc].L
        poly == CRC_POLYS[crc].poly
    IN  IF Len(bits_with_crc) < L
        THEN [payload |-> bits_with_crc, ok |-> FALSE]
        ELSE [payload |-> SubSeq(bits_with_crc, 1, Len(bits_with_crc) - L),
              ok      |-> CrcFeed(0, bits_with_crc, 1, L, poly) = 0]

(***************************************************************************)
(* Convolutional code configuration.                                       *)
(***************************************************************************)
constraint_len == 7

generators_octal == <<133, 171, 165>>

\* int(str(oct_val), 8): the decimal digits read in base 8
RECURSIVE octal_to_int(_)
octal_to_int(oct_val) ==
    IF oct_val = 0 THEN 0
    ELSE (oct_val % 10) + 8 * octal_to_int(oct_val \div 10)

generators ==
    [j \in 1..3 |-> AndInt(octal_to_int(generators_octal[j]), Pow2(constraint_len) - 1)]

memory == constraint_len - 1

n_states == Pow2(memory)

States == 0..(n_states - 1)

(***************************************************************************)
(* Convolutional encoder.                                                  *)
(***************************************************************************)
\* The three coded bits of register [u, s0..s5].
EncOut(state, u) ==
    LET reg == OrInt(u * Pow2(memory), state)
    IN  [j \in 1..3 |-> BitCount(AndInt(reg, generators[j])) % 2]

\* new_state = [u, s0..s4]
EncNext(state, u) ==
    AndInt(OrInt(u * Pow2(memory - 1), state \div 2), Pow2(memory) - 1)

\* state |= int(b) << (m - 1 - i) over the last m bits
RECURSIVE TailState(_, _)
TailState(last, i) ==
    IF i > Len(last) THEN 0
    ELSE OrInt(last[i] * Pow2(memory - i), TailState(last, i + 1))

EncInitState(bits, tail_biting) ==
    IF tail_biting /\ Len(bits) >= memory
    THEN TailState(SubSeq(bits, Len(bits) - memory + 1, Len(bits)), 1)
    ELSE 0

\* A plausible slip: the flush bits are never appended.
EncInBits_NoFlush(bits, terminate, tail_biting) == bits

\* A plausible slip: the flush bits are appended whenever terminate is set.
EncInBits_AlwaysFlush(bits, terminate, tail_biting) ==
    IF terminate THEN bits \o Zeros(memory) ELSE bits

EncInBits(bits, terminate, tail_biting) ==
    IF terminate /\ ~tail_biting THEN bits \o Zeros(memory) ELSE bits

\* The encoding loop from input position i on: the coded bits, the final state.
RECURSIVE EncLoop(_, _, _, _)
EncLoop(in_bits, i, state, out) ==
    IF i > Len(in_bits) THEN [out |-> out, state |-> state]
    ELSE CHOOSE r \in {EncLoop(in_bits, i + 1, s1, o1) :
                          s1 \in {EncNext(state, in_bits[i])},
                          o1 \in {out \o EncOut(state, in_bits[i])}} : TRUE

\* conv_encode with its register exposed: out, the initial and the final state.
EncRun(bits, terminate, tail_biting) ==
    LET s0 == EncInitState(bits, tail_biting)
        r  == EncLoop(EncInBits(bits, terminate, tail_biting), 1, s0, <<>>)
    IN  [out |-> r.out, state0 |-> s0, state |-> r.state]

conv_encode(bits, terminate, tail_biting) == EncRun(bits, terminate, tail_biting).out

(***************************************************************************)
(* Trellis tables, built once from the code configuration.                 *)
(***************************************************************************)
\* out_bits[p, u, :]
TrellisOutBits(p, u) ==
    LET reg == OrInt(u * Pow2(memory), p)
    IN  [j \in 1..3 |-> BitCount(AndInt(reg, generators[j])) % 2]

\* A plausible slip: the table shifts the state the other way.
TrellisNextState_ShiftLeft(p, u) ==
    AndInt(OrInt(u, p * 2), n_states - 1) % Pow2(8)

\* next_state[p, u], kept in an unsigned 8-bit cell
TrellisNextState(p, u) ==
    AndInt(OrInt(u * Pow2(memory - 1), p \div 2), n_states - 1) % Pow2(8)

build_trellis ==
    [next_state |-> [p \in States |-> [u \in Bit |-> TrellisNextState(p, u)]],
     out_bits   |-> [p \in States |-> [u \in Bit |-> TrellisOutBits(p, u)]]]

TRELLIS_NEXT == build_trellis.next_state

TRELLIS_OUT == build_trellis.out_bits

(***************************************************************************)
(* Hard-decision Viterbi decoder for the terminated code.                  *)
(***************************************************************************)
INF == 1000000000

\* The metrics are signed 32-bit cells (np.int32), as TLC's integers are: a sum
\* that leaves the 32-bit range is an overflow error in both.

\* coded_bits[: size - size % 3]
Truncate3(coded_bits) ==
    IF Len(coded_bits) % 3 # 0
    THEN SubSeq(coded_bits, 1, Len(coded_bits) - (Len(coded_bits) % 3))
    ELSE coded_bits

NSteps(coded_bits) == Len(coded_bits) \div 3

\* A plausible slip: every state starts at metric 0.
InitMetrics_AllZero == [s \in States |-> 0]

\* np.full(n_states, INF); metrics[0] = 0
InitMetrics == [s \in States |-> IF s = 0 THEN 0 ELSE INF]

\* A plausible slip: the input bit is read from the wrong end of the state.
u_for_state_Lsb == [s \in States |-> s % 2]

\* (states >> (m - 1)) & 1
u_for_state == [s \in States |-> BitAt(s, memory - 1)]

\* (states & ((1 << (m - 1)) - 1)) << 1
p0 == [s \in States |-> AndInt(s, Pow2(memory - 1) - 1) * 2]

p1 == [s \in States |-> OrInt(p0[s], 1)]

\* The expected outputs of the p0 and p1 transitions.
out0 == [s \in States |-> trellis.out_bits[p0[s]][u_for_state[s]]]

out1 == [s \in States |-> trellis.out_bits[p1[s]][u_for_state[s]]]

\* The three received bits of trellis step tt (tt = 0 is the first step).
Received3(coded_bits, tt) ==
    <<coded_bits[3 * tt + 1], coded_bits[3 * tt + 2], coded_bits[3 * tt + 3]>>

\* (out[:, 0] ^ y0) + (out[:, 1] ^ y1) + (out[:, 2] ^ y2)
\* (^ on two bits is their sum modulo 2)
BranchDist(out, y) ==
    ((out[1] + y[1]) % 2) + ((out[2] + y[2]) % 2) + ((out[3] + y[3]) % 2)

Cand0(met, s, y) == met[p0[s]] + BranchDist(out0[s], y)

Cand1(met, s, y) == met[p1[s]] + BranchDist(out1[s], y)

\* A plausible slip: the comparison is the wrong way round.
Take1_Inverted(cand0, cand1) == cand0 < cand1

\* A plausible slip: a tie goes to p1.
Take1_OnTie(cand0, cand1) == cand1 <= cand0

\* take1 = cand1 < cand0
Take1(cand0, cand1) == cand1 < cand0

\* For every state, the two candidates, and the metric and the predecessor
\* the comparison selects: np.where(take1, cand1, cand0), np.where(take1, p1, p0).
AddCompareSelect(met, y) ==
    [s \in States |->
        LET cand0 == Cand0(met, s, y)
            cand1 == Cand1(met, s, y)
        IN  IF Take1(cand0, cand1)
            THEN [metric |-> cand1, prev |-> p1[s], cand0 |-> cand0, cand1 |-> cand1]
            ELSE [metric |-> cand0, prev |-> p0[s], cand0 |-> cand0, cand1 |-> cand1]]

\* The traceback loop from step tt down: the decoded bits, the state it ends in.
RECURSIVE TraceBack(_, _, _, _)
TraceBack(prev, tt, state, u_hat) ==
    IF tt = 0 THEN [u_hat |-> u_hat, state |-> state]
    ELSE CHOOSE r \in {TraceBack(prev, tt - 1, s1, u1) :
                          s1 \in {prev[tt][state]},
                          u1 \in {<<BitAt(state, memory - 1)>> \o u_hat}} : TRUE

\* A plausible slip: u_hat[:-m] without the test n_steps >= m.
DropTail_NoGuard(u_hat, drop_tail) ==
    IF drop_tail THEN SubSeq(u_hat, 1, Len(u_hat) - memory) ELSE u_hat

\* u_hat[:-m] when drop_tail and n_steps >= m
DropTail(u_hat, drop_tail) ==
    IF drop_tail /\ Len(u_hat) >= memory
    THEN SubSeq(u_hat, 1, Len(u_hat) - memory)
    ELSE u_hat

(***************************************************************************)
(* The coded link of the decoder's caller: the coded bits a message is     *)
(* sent as, with a run of them inverted or with the last ones lost.        *)
(***************************************************************************)
Invert(coded, lo, hi) ==
    [i \in 1..Len(coded) |-> IF lo <= i /\ i <= hi THEN 1 - coded[i] ELSE coded[i]]

CutEnd(coded, k) == SubSeq(coded, 1, Len(coded) - k)

\* No run (<<1, 0>>), a run of at most MaxBurst bits anywhere, a run from the start.
Runs(n) ==
    {<<1, 0>>} \cup
    {w \in (1..n) \X (1..n) : w[1] <= w[2] /\ (w[2] - w[1] < MaxBurst \/ w[1] = 1)}

LinkOutputs(coded) ==
    {Invert(coded, w[1], w[2]) : w \in Runs(Len(coded))}
        \cup {CutEnd(coded, k) : k \in 1..MaxCut}

(***************************************************************************)
(* The process-wide random generator: a state, set by a seed, advanced by  *)
(* every draw.  (numpy's generator with its state space cut to RngMod.)    *)
(***************************************************************************)
\* np.random.seed(seed): the state depends on the seed alone
RngSeed(seed) == (7 * seed + 1) % RngMod

RngAdvance(g) == (5 * g + 3) % RngMod

\* The bit a draw returns from the state it leaves.
RngBit(g) == IF 2 * g >= RngMod THEN 1 ELSE 0

\* The state after k draws from state g.
RECURSIVE RngAfter(_, _)
RngAfter(g, k) ==
    IF k = 0 THEN g
    ELSE IF k = 1 THEN RngAdvance(g)
    ELSE CHOOSE r \in {RngAfter(h, k2) : h \in {RngAfter(g, k \div 2)},
                                        k2 \in {k - (k \div 2)}} : TRUE

\* np.random.randint(0, 2, n) from state g: the bits drawn, the state left.
RandInt(g, n) ==
    [bits |-> [i \in 1..n |-> RngBit(RngAfter(g, i))], state |-> RngAfter(g, n)]

\* np.random.randn(n) twice (real and imaginary part): the state left.
AwgnDraw(g, n) == RandInt(g, 2 * n).state

(***************************************************************************)
(* Scrambler.  An input is a bit array, or an array numpy cannot XOR       *)
(* (xorable = FALSE: floats); a seed below 0 is refused by the generator.  *)
(***************************************************************************)
\* A plausible slip: the draw uses the ambient generator, not the seeded one.
ScramblingSequence_Ambient(seed, g, n) == RandInt(g, n)

\* np.random.seed(seed); np.random.randint(0, 2, len(bits))
ScramblingSequence(seed, g, n) == RandInt(RngSeed(seed), n)

\* A plausible slip: the state is put back on the normal return only.
Restore_OnReturnOnly(saved, current, raised) == IF raised THEN current ELSE saved

\* finally: np.random.set_state(state)
Restore(saved, current, raised) == saved

\* apply_scrambling on generator state g: what it returns or that it raised,
\* and the generator state it leaves.
apply_scrambling(bits, xorable, seed, g) ==
    LET state == g
    IN  IF seed < 0
        THEN \* np.random.seed raises ValueError; the generator is untouched
             [out |-> <<>>, raised |-> TRUE, rng |-> Restore(state, g, TRUE)]
        ELSE LET seq == ScramblingSequence(seed, g, Len(bits))
             IN  IF ~xorable
                 THEN \* np.bitwise_xor raises TypeError after the draw
                      [out |-> <<>>, raised |-> TRUE,
                       rng |-> Restore(state, seq.state, TRUE)]
                 ELSE [out |-> [i \in 1..Len(bits) |-> XorInt(bits[i], seq.bits[i])],
                       raised |-> FALSE,
                       rng |-> Restore(state, seq.state, FALSE)]

(***************************************************************************)
(* Complex samples, exact: [re, im, d] is (re + i im) / 2^d, in lowest     *)
(* terms.  With a 4-point transform every twiddle factor is a power of i   *)
(* and sqrt(n_fft) is 2, so numpy's arithmetic is exact on these values.   *)
(***************************************************************************)
Cx(re, im) == [re |-> re, im |-> im, d |-> 0]

CxZero == Cx(0, 0)

RECURSIVE CxNorm(_)
CxNorm(z) ==
    IF z.d > 0 /\ z.re % 2 = 0 /\ z.im % 2 = 0
    THEN CxNorm([re |-> z.re \div 2, im |-> z.im \div 2, d |-> z.d - 1])
    ELSE z

CxAdd(a, b) ==
    LET d == IF a.d > b.d THEN a.d ELSE b.d
    IN  CxNorm([re |-> a.re * Pow2(d - a.d) + b.re * Pow2(d - b.d),
                im |-> a.im * Pow2(d - a.d) + b.im * Pow2(d - b.d),
                d  |-> d])

\* z * i^q
CxMulI(z, q) ==
    CASE q % 4 = 0 -> z
      [] q % 4 = 1 -> [re |-> -z.im, im |-> z.re, d |-> z.d]
      [] q % 4 = 2 -> [re |-> -z.re, im |-> -z.im, d |-> z.d]
      [] q % 4 = 3 -> [re |-> z.im, im |-> -z.re, d |-> z.d]

\* z * r and z / r for r a power of two
CxTimes(z, r) == CxNorm([re |-> z.re * r, im |-> z.im * r, d |-> z.d])

Log2(r) == CHOOSE k \in 0..r : Pow2(k) = r

CxOver(z, r) == CxNorm([re |-> z.re, im |-> z.im, d |-> z.d + Log2(r)])

\* np.sqrt(n_fft), for the sizes whose root is an integer
Sqrt(n) == CHOOSE r \in 1..n : r * r = n

\* The transform size whose twiddle factors are powers of i and whose root
\* is a power of two.
FftSizes == {4}

RECURSIVE CxSum(_, _)
CxSum(f, n) == IF n = 0 THEN CxZero ELSE CxAdd(CxSum(f, n - 1), f[n])

\* np.fft.fft: X[k] = sum_n x[n] exp(-2 pi i k n / N), exp(-2 pi i/N) = i^(-4/N)
fft(x, N) ==
    [k \in 1..N |->
        CxSum([n \in 1..N |-> CxMulI(x[n], 4 * N - (4 \div N) * (k - 1) * (n - 1))], N)]

\* np.fft.ifft: x[n] = (1/N) sum_k X[k] exp(+2 pi i k n / N)
ifft(X, N) ==
    [n \in 1..N |->
        CxOver(CxSum([k \in 1..N |-> CxMulI(X[k], (4 \div N) * (k - 1) * (n - 1))], N), N)]

\* np.concatenate of f(0), ..., f(n - 1)
RECURSIVE Concatenate(_, _)
Concatenate(f, n) == IF n = 0 THEN <<>> ELSE Concatenate(f, n - 1) \o f[n - 1]

\* block[lo:hi] of Python, 0-based, hi exclusive, both within the array
Slice(a, lo, hi) == SubSeq(a, lo + 1, hi)

\* int(np.ceil(num_symbols / nc))
CeilDiv(a, b) == (a + b - 1) \div b

\* A plausible slip: the block is written from carrier 0 on, over the DC carrier.
IfftInput_FromDc(block, n_fft, nc) ==
    [j \in 1..n_fft |-> IF j - 1 < nc THEN block[j] ELSE CxZero]

\* ifft_input = np.zeros(n_fft); ifft_input[1 : nc + 1] = block
IfftInput(block, n_fft, nc) ==
    [j \in 1..n_fft |-> IF j - 1 >= 1 /\ j - 1 < nc + 1 THEN block[j - 1] ELSE CxZero]

\* modulate_ofdm with the ifft_input of every block exposed.
modulate_ofdm(symbols, n_fft, nc) ==
    LET num_symbols == Len(symbols)
        num_blocks  == CeilDiv(num_symbols, nc)
        pad_len     == num_blocks * nc - num_symbols
        padded      == IF pad_len > 0
                       THEN symbols \o [i \in 1..pad_len |-> CxZero]
                       ELSE symbols
        ifft_input(i) == IfftInput(Slice(padded, i * nc, (i + 1) * nc), n_fft, nc)
        time_sym(i) ==
            LET x == ifft(ifft_input(i), n_fft)
            IN  [j \in 1..n_fft |-> CxTimes(x[j], Sqrt(n_fft))]
    IN  [signal     |-> Concatenate([i \in 0..(num_blocks - 1) |-> time_sym(i)],
                                    num_blocks),
         num_blocks |-> num_blocks,
         ifft_input |-> [i \in 0..(num_blocks - 1) |-> ifft_input(i)]]

\* A plausible slip: the data is read from carrier 0 on, not from carrier 1.
DataCarriers_FromDc(fft_out, nc) == Slice(fft_out, 0, nc)

\* fft_out[1 : nc + 1]
DataCarriers(fft_out, nc) == Slice(fft_out, 1, nc + 1)

demodulate_ofdm(rx_signal, n_fft, nc) ==
    LET num_blocks == Len(rx_signal) \div n_fft
        data(i) ==
            LET block == Slice(rx_signal, i * n_fft, (i + 1) * n_fft)
                X == fft(block, n_fft)
                fft_out == [k \in 1..n_fft |-> CxOver(X[k], Sqrt(n_fft))]
            IN  DataCarriers(fft_out, nc)
    IN  Concatenate([i \in 0..(num_blocks - 1) |-> data(i)], num_blocks)

(***************************************************************************)
(* Cyclic prefix.  cp_ratio is the fraction num / den.                     *)
(***************************************************************************)
\* int(n_fft * cp_ratio)
CpLen(n_fft, cp_ratio) == (n_fft * cp_ratio[1]) \div cp_ratio[2]

\* block[-k:] of Python: the last k items, and the whole block when k = 0
\* (-0 is 0, and block[0:] is the block).
LastItems(block, k) ==
    IF k = 0 \/ k >= Len(block) THEN block
    ELSE SubSeq(block, Len(block) - k + 1, Len(block))

add_cyclic_prefix(signal, num_blocks, n_fft, cp_ratio) ==
    LET cp_len == CpLen(n_fft, cp_ratio)
        with_cp(i) ==
            LET block == Slice(signal, i * n_fft, (i + 1) * n_fft)
                cp == LastItems(block, cp_len)
            IN  cp \o block
    IN  [signal |-> Concatenate([i \in 0..(num_blocks - 1) |-> with_cp(i)], num_blocks),
         cp_len |-> cp_len]

remove_cyclic_prefix(rx_signal, n_fft, cp_len) ==
    LET block_len == n_fft + cp_len
        num_blocks == Len(rx_signal) \div block_len
        no_cp(i) ==
            LET full_block == Slice(rx_signal, i * block_len, (i + 1) * block_len)
            IN  Slice(full_block, cp_len, Len(full_block))
    IN  Concatenate([i \in 0..(num_blocks - 1) |-> no_cp(i)], num_blocks)

\* The symbols and samples the calls are given.
Symbols == {Cx(1, 1), Cx(-1, 1), Cx(1, -3)}

SymbolArrays == UNION {[1..n -> Symbols] : n \in 0..MaxSyms}

Samples == {Cx(1, 0), Cx(0, 1)}

\* Prefix ratios, strictly between 0 and 1.
CpRatios == {<<1, 4>>, <<1, 2>>, <<3, 4>>}

(***************************************************************************)
(* Constellation codec.  A symbol [point, norm] is the complex value       *)
(* point / sqrt(norm); two symbols of the same norm compare by the squared *)
(* distance of their points.                                               *)
(***************************************************************************)
\* MOD_CONSTELLATIONS of core/config.py: for each modulation a fixed
\* one-to-one map from the bit tuples of size k to complex points (Gray-coded
\* square QAM), its keys in ascending binary order.
RECURSIVE QamLevel(_)
QamLevel(axis_bits) ==
    IF axis_bits = <<>> THEN 1
    ELSE Pow2(Len(axis_bits)) - (1 - 2 * Head(axis_bits)) * QamLevel(Tail(axis_bits))

QamAxis(chunk, first) ==
    LET axis_bits == [i \in 1..(Len(chunk) \div 2) |-> chunk[first + 2 * (i - 1)]]
    IN  (1 - 2 * Head(axis_bits)) * QamLevel(Tail(axis_bits))

BitMaps(n_bits) ==
    [j \in 1..Pow2(n_bits) |-> [i \in 1..n_bits |-> BitAt(j - 1, n_bits - i)]]

MOD_CONSTELLATIONS ==
    [m \in 1..3 |->
        [keys   |-> BitMaps(2 * m),
         values |-> [j \in 1..Pow2(2 * m) |->
                        Cx(QamAxis(BitMaps(2 * m)[j], 1), QamAxis(BitMaps(2 * m)[j], 2))]]]

\* A plausible slip: index 3 is given the chunk size of index 2.
get_constellation_map_WrongBits(mod_type) ==
    CASE mod_type = 1 -> [raised |-> FALSE, constellation |-> MOD_CONSTELLATIONS[1], n_bits |-> 2]
      [] mod_type = 2 -> [raised |-> FALSE, constellation |-> MOD_CONSTELLATIONS[2], n_bits |-> 4]
      [] mod_type = 3 -> [raised |-> FALSE, constellation |-> MOD_CONSTELLATIONS[3], n_bits |-> 4]
      [] OTHER        -> [raised |-> TRUE]

\* raised: ValueError("Modulación no soportada")
get_constellation_map(mod_type) ==
    CASE mod_type = 1 -> [raised |-> FALSE, constellation |-> MOD_CONSTELLATIONS[1], n_bits |-> 2]
      [] mod_type = 2 -> [raised |-> FALSE, constellation |-> MOD_CONSTELLATIONS[2], n_bits |-> 4]
      [] mod_type = 3 -> [raised |-> FALSE, constellation |-> MOD_CONSTELLATIONS[3], n_bits |-> 6]
      [] OTHER        -> [raised |-> TRUE]

\* scale = 1 / sqrt(norm_factors[mod_type]); an index that is not a key is a
\* KeyError.
norm_factors == (1 :> 2) @@ (2 :> 10) @@ (3 :> 42)

\* constellation.get(chunk, 0 + 0j)
ConstellationGet(constellation, chunk) ==
    IF \E j \in DOMAIN constellation.keys : constellation.keys[j] = chunk
    THEN constellation.values[CHOOSE j \in DOMAIN constellation.keys :
                                  constellation.keys[j] = chunk]
    ELSE CxZero

\* A plausible slip: the last, incomplete chunk is dropped instead of padded.
PadBits_Drop(bits, n_bits) == SubSeq(bits, 1, Len(bits) - (Len(bits) % n_bits))

\* np.concatenate((bits, np.zeros(n_bits - remainder))) when remainder != 0
PadBits(bits, n_bits) ==
    LET remainder == Len(bits) % n_bits
    IN  IF remainder # 0 THEN bits \o Zeros(n_bits - remainder) ELSE bits

map_bits_to_symbols(bits, mod_type) ==
    LET g == get_constellation_map(mod_type)
    IN  IF g.raised THEN [raised |-> TRUE, symbols |-> <<>>]
        ELSE IF mod_type \notin DOMAIN norm_factors
        THEN [raised |-> TRUE, symbols |-> <<>>]
        ELSE LET padded == PadBits(bits, g.n_bits)
                 chunk(i) == SubSeq(padded, (i - 1) * g.n_bits + 1, i * g.n_bits)
             IN  [raised  |-> FALSE,
                  symbols |-> [i \in 1..(Len(padded) \div g.n_bits) |->
                                  [point |-> ConstellationGet(g.constellation, chunk(i)),
                                   norm  |-> norm_factors[mod_type]]]]

\* |sym - point|^2 in units of 1 / norm, times 4^d for the larger d of the two
Dist2(a, b) ==
    LET d  == IF a.d > b.d THEN a.d ELSE b.d
        re == a.re * Pow2(d - a.d) - b.re * Pow2(d - b.d)
        im == a.im * Pow2(d - a.d) - b.im * Pow2(d - b.d)
    IN  re * re + im * im

\* np.argmin: the first index of the least value
ArgMin(d) ==
    CHOOSE j \in DOMAIN d :
        /\ \A k \in DOMAIN d : d[j] <= d[k]
        /\ \A k \in DOMAIN d : k < j => d[k] > d[j]

demap_symbols_to_bits(symbols, mod_type) ==
    LET g == get_constellation_map(mod_type)
    IN  IF g.raised THEN [raised |-> TRUE, bits |-> <<>>]
        ELSE IF mod_type \notin DOMAIN norm_factors
        THEN [raised |-> TRUE, bits |-> <<>>]
        ELSE LET points   == g.constellation.values
                 bit_maps == g.constellation.keys
                 nearest(sym) ==
                     bit_maps[ArgMin([j \in DOMAIN points |-> Dist2(sym.point, points[j])])]
             IN  [raised |-> FALSE,
                  bits   |-> Concatenate([i \in 0..(Len(symbols) - 1) |->
                                             nearest(symbols[i + 1])], Len(symbols))]

SupportedMods == {1, 2, 3}

ModTypes == 0..MaxModType

(***************************************************************************)
(* Channel model.  The fixed taps are kept in tenths; a normalised impulse *)
(* response [num, sq] has the taps num[i] / sqrt(sq), so that its energy   *)
(* is (sum of num[i]^2) / sq.  Floating-point rounding is left out.        *)
(***************************************************************************)
\* base_h, in tenths: 1.0, 0.1 seven times, 0.5, 0.5
base_h == <<10, 1, 1, 1, 1, 1, 1, 1, 5, 5>>

RECURSIVE SumInt(_, _)
SumInt(a, n) == IF n = 0 THEN 0 ELSE SumInt(a, n - 1) + a[n]

\* np.sum(np.abs(h)**2) of real taps
SumSq(h) == SumInt([i \in 1..Len(h) |-> h[i] * h[i]], Len(h))

\* A plausible slip: the taps are divided by their sum.
Normalize_BySum(h) ==
    [num |-> h, sq |-> SumInt(h, Len(h)) * SumInt(h, Len(h))]

\* h / np.sqrt(np.sum(np.abs(h)**2))
Normalize(h) == [num |-> h, sq |-> SumSq(h)]

\* The impulse response apply_rayleigh builds for num_taps >= 1.
ImpulseResponse(num_taps) ==
    IF num_taps = 1
    THEN [num |-> <<1>>, sq |-> 1]
    ELSE Normalize(IF num_taps <= Len(base_h)
                   THEN SubSeq(base_h, 1, num_taps)
                   ELSE base_h \o Zeros(num_taps - Len(base_h)))

\* np.convolve(signal, h, mode='full') of a signal and taps that are not
\* empty: len(signal) + len(h) - 1 samples, in units of 1/sqrt(sq)
ConvolveFull(signal, h) ==
    [n \in 1..(Len(signal) + Len(h) - 1) |->
        CxSum([k \in 1..Len(h) |->
                  IF n - k + 1 >= 1 /\ n - k + 1 <= Len(signal)
                  THEN CxTimes(signal[n - k + 1], h[k]) ELSE CxZero],
              Len(h))]

\* A plausible slip: the cut is one sample short.
CutToSignal_OneShort(signal_convolved, n) == SubSeq(signal_convolved, 1, n - 1)

\* signal_convolved[:len(signal)]
CutToSignal(signal_convolved, n) ==
    SubSeq(signal_convolved, 1, IF n < Len(signal_convolved) THEN n ELSE Len(signal_convolved))

Convolve(signal, h) == CutToSignal(ConvolveFull(signal, h), Len(signal))

\* The noise one sample can get, in the units of the convolved signal.
NoiseSamples == {CxZero, Cx(2, 0)}

\* apply_awgn: the noise is zero when the signal has no power, and any
\* values otherwise, one for each sample of the signal it is given.
NoiseArrays(signal) ==
    IF \A n \in 1..Len(signal) : signal[n] = CxZero
    THEN {[n \in 1..Len(signal) |-> CxZero]}
    ELSE [1..Len(signal) -> NoiseSamples]

\* apply_rayleigh(signal, snr_db, num_taps) with the noise array it draws;
\* np.convolve raises ValueError on an empty signal, before any noise is drawn.
apply_rayleigh(signal, num_taps, noise) ==
    LET h == ImpulseResponse(num_taps)
    IN  IF Len(signal) = 0
        THEN [raised |-> TRUE, signal |-> <<>>, h |-> h]
        ELSE LET signal_convolved == Convolve(signal, h.num)
             IN  [raised |-> FALSE,
                  signal |-> [n \in 1..Len(signal_convolved) |->
                                 CxAdd(signal_convolved[n], noise[n])],
                  h      |-> h]

(***************************************************************************)
(* Equalizer.  An equalized symbol is the quotient [num, den]: num is the  *)
(* received symbol, den the divisor in units of 1/sqrt(sq), with floor set *)
(* when the divisor is the threshold 1e-10 itself.  A 4-point response of  *)
(* integer taps is a Gaussian integer over sqrt(sq): its magnitude is      *)
(* below 1e-10 only when it is zero.                                       *)
(***************************************************************************)
\* np.fft.fft(h, n_fft) crops h or pads it with zeros to n_fft items.
PadOrCrop(h, n_fft) ==
    [k \in 1..n_fft |-> IF k <= Len(h) THEN Cx(h[k], 0) ELSE CxZero]

\* H_data[np.abs(H_data) < threshold] = threshold
Clamp(z) ==
    IF z = CxZero THEN [z |-> CxZero, floor |-> TRUE] ELSE [z |-> z, floor |-> FALSE]

\* np.tile(a, reps)
RECURSIVE Tile(_, _)
Tile(a, reps) == IF reps = 0 THEN <<>> ELSE a \o Tile(a, reps - 1)

\* A plausible slip: the divisors are read from carrier 0 on.
ChannelCarriers_FromDc(H_freq, nc) == Slice(H_freq, 0, nc)

\* H_freq[1 : nc + 1]
ChannelCarriers(H_freq, nc) == Slice(H_freq, 1, nc + 1)

\* A plausible slip: H_data is the slice itself, a view of H_freq.
HDataMemory_View == "H_freq"

\* H_freq[1 : nc + 1].copy(): the array whose memory H_data names
HDataMemory == "H_data"

\* equalize_channel with the arrays it has touched as it leaves them: h, which
\* no statement assigns to (np.fft.fft returns a new array), and H_freq, which
\* the clamp writes to when H_data shares its memory.
equalize_channel(rx_freq_symbols, h_impulse_response, n_fft, nc) ==
    LET H_freq  == fft(PadOrCrop(h_impulse_response.num, n_fft), n_fft)
        H_data  == ChannelCarriers(H_freq, nc)
        clamped == [k \in 1..Len(H_data) |-> Clamp(H_data[k])]
        divisor == SubSeq(Tile(clamped, Len(rx_freq_symbols) \div nc + 1),
                          1, Len(rx_freq_symbols))
    IN  [symbols |-> [i \in 1..Len(rx_freq_symbols) |->
                         [num |-> rx_freq_symbols[i], den |-> divisor[i]]],
         sq      |-> h_impulse_response.sq,
         h       |-> h_impulse_response,
         H_freq  |-> [k \in 1..n_fft |->
                         IF HDataMemory = "H_freq" /\ k - 1 >= 1 /\ k - 1 < nc + 1
                         THEN clamped[k - 1]
                         ELSE [z |-> H_freq[k], floor |-> FALSE]]]

\* Impulse responses whose 4-point frequency response has zeros.
FadingResponses == {Normalize(<<1, 1>>), Normalize(<<1, 0, 1>>), Normalize(<<1, 1, 1, 1>>)}

\* The received symbol arrays the equalizer is given.
RxArrays == UNION {[1..n -> Symbols] : n \in 0..MaxEqSyms}

(***************************************************************************)
(* conv_decode_terminated as one call: the main recursion run to its end.  *)
(***************************************************************************)
RECURSIVE ViterbiLoop(_, _, _, _)
ViterbiLoop(coded_bits, tt, met, prev) ==
    IF tt = NSteps(coded_bits) THEN [metrics |-> met, prev_state |-> prev]
    ELSE CHOOSE r \in {ViterbiLoop(coded_bits, tt + 1,
                                   [s \in States |-> acs[s].metric],
                                   Append(prev, [s \in States |-> acs[s].prev])) :
                          acs \in {CHOOSE a \in {AddCompareSelect(met, Received3(coded_bits, tt))} :
                                      a = a}} : TRUE

conv_decode_terminated(coded_bits, drop_tail) ==
    LET truncated == Truncate3(coded_bits)
        r  == ViterbiLoop(truncated, 0, InitMetrics, <<>>)
        tb == TraceBack(r.prev_state, NSteps(truncated), 0, <<>>)
    IN  DropTail(tb.u_hat, drop_tail)

(***************************************************************************)
(* The simulation manager: one transmission of an image through the chain, *)
(* and the bit-error-rate curve, which repeats the chain for every         *)
(* modulation and every signal-to-noise ratio.                             *)
(***************************************************************************)
\* The side of the image in pixels (250 in the source): an image has
\* img_size * img_size * 8 bits.
img_size == 1

\* The scrambler's default seed.
DEFAULT_SEED == 2024

\* LTE_BANDWIDTHS and LTE_PROFILES of core/config.py, cut to one entry each:
\* the number of active subcarriers, the cyclic-prefix ratio.
LTE_BANDWIDTHS == <<[nc |-> 3]>>

LTE_PROFILES == <<[cp_ratio |-> <<1, 4>>]>>

\* n_fft = int(2 ** ceil(log2(nc)))
get_ofdm_params(bw_idx, profile_idx) ==
    IF bw_idx \notin DOMAIN LTE_BANDWIDTHS \/ profile_idx \notin DOMAIN LTE_PROFILES
    THEN [raised |-> TRUE]
    ELSE LET nc == LTE_BANDWIDTHS[bw_idx].nc
         IN  [raised   |-> FALSE,
              n_fft    |-> CHOOSE n \in {Pow2(k) : k \in 0..nc} : n >= nc /\ n < 2 * nc,
              nc       |-> nc,
              cp_ratio |-> LTE_PROFILES[profile_idx].cp_ratio]

\* The images a path can name: none (cv2.imread returns None), or a grey
\* image of img_size * img_size pixels, given by its bits.
ImageBits ==
    {[i \in 1..(img_size * img_size * 8) |-> 0],
     [i \in 1..(img_size * img_size * 8) |-> IF i % 3 = 1 THEN 1 ELSE 0]}

Images == {[found |-> TRUE, bits |-> b] : b \in ImageBits} \cup {[found |-> FALSE, bits |-> <<>>]}

image_to_bits(image, size) ==
    IF ~image.found THEN [raised |-> TRUE, bits |-> <<>>]
    ELSE [raised |-> FALSE, bits |-> image.bits]

\* bits[:expected_len], np.packbits, reshape((size, size)): the reshape raises
\* unless the bits fill size * size bytes.
bits_to_image(bits, size) ==
    LET expected_len == size * size * 8
        cut          == SubSeq(bits, 1, IF Len(bits) < expected_len THEN Len(bits) ELSE expected_len)
    IN  IF CeilDiv(Len(cut), 8) # size * size
        THEN [raised |-> TRUE, img |-> <<>>]
        ELSE [raised |-> FALSE, img |-> PadBits(cut, 8)]

\* A plausible slip: the CRC is not attached before the coding.
TxCoded_NoCrc(tx_bits_raw, enable_fec) ==
    IF enable_fec
    THEN [tx_bits_crc   |-> tx_bits_raw,
          tx_bits_coded |-> conv_encode(tx_bits_raw, TRUE, FALSE),
          stages        |-> <<"channel encoding">>]
    ELSE [tx_bits_crc |-> <<>>, tx_bits_coded |-> tx_bits_raw, stages |-> <<>>]

\* A plausible slip: the transmitter never codes.
TxCoded_NoFec(tx_bits_raw, enable_fec) ==
    [tx_bits_crc |-> tx_bits_raw, tx_bits_coded |-> tx_bits_raw, stages |-> <<>>]

\* crc_attach and conv_encode when FEC is on (tx_bits_crc is not assigned
\* otherwise), and the stage that has run.
TxCoded(tx_bits_raw, enable_fec) ==
    IF enable_fec
    THEN LET tx_bits_crc == crc_attach(tx_bits_raw, "24A")
         IN  [tx_bits_crc   |-> tx_bits_crc,
              tx_bits_coded |-> conv_encode(tx_bits_crc, TRUE, FALSE),
              stages        |-> <<"channel encoding">>]
    ELSE [tx_bits_crc |-> <<>>, tx_bits_coded |-> tx_bits_raw, stages |-> <<>>]

\* A plausible slip: the slice is forgotten.
TruncateTo_Keep(bits, n) == bits

\* bits[:n]
TruncateTo(bits, n) == IF Len(bits) > n THEN SubSeq(bits, 1, n) ELSE bits

\* np.pad(bits, (0, n - len(bits))) when len(bits) < n
PadTo(bits, n) == IF Len(bits) < n THEN bits \o Zeros(n - Len(bits)) ELSE bits

\* A plausible slip: the result of crc_check is what is reported.
CrcStatus_OfCrcCheck(crc_ok, rx_bits_after_viterbi, tx_bits_crc) == crc_ok

\* crc_ok as run_image_transmission assigns it a second time: the last 24
\* decoded bits against tx_bits_crc[-24:], or False when there are fewer.
CrcStatus(crc_ok, rx_bits_after_viterbi, tx_bits_crc) ==
    IF Len(rx_bits_after_viterbi) >= 24
    THEN LastItems(rx_bits_after_viterbi, 24) = LastItems(tx_bits_crc, 24)
    ELSE FALSE

\* The receiver's channel decoding and length normalisation.
RxDecoded(fn, rx_bits_coded, tx_bits_raw, tx_bits_crc, enable_fec) ==
    IF enable_fec
    THEN LET after_viterbi == conv_decode_terminated(rx_bits_coded, TRUE)
             c == crc_check(after_viterbi, "24A")
         IN  [rx_bits_after_viterbi |-> after_viterbi,
              rx_bits |-> TruncateTo(PadTo(c.payload, Len(tx_bits_raw)), Len(tx_bits_raw)),
              crc_check_ok |-> c.ok,
              crc_ok  |-> IF fn = "calculate_ber_curve" THEN c.ok
                          ELSE CrcStatus(c.ok, after_viterbi, tx_bits_crc),
              stages  |-> <<"channel decoding">>]
    ELSE [rx_bits_after_viterbi |-> <<>>,
          crc_check_ok |-> TRUE,
          rx_bits |-> IF fn = "calculate_ber_curve"
                      THEN TruncateTo(PadTo(rx_bits_coded, Len(tx_bits_raw)), Len(tx_bits_raw))
                      ELSE TruncateTo(rx_bits_coded, Len(tx_bits_raw)),
          crc_ok  |-> TRUE,
          stages  |-> <<>>]

\* np.sum(tx_bits_raw != rx_bits) / len(tx_bits_raw), as a fraction
BitErrorRate(tx_bits_raw, rx_bits) ==
    [errors |-> Cardinality({i \in 1..Len(tx_bits_raw) : tx_bits_raw[i] # rx_bits[i]}),
     of     |-> Len(tx_bits_raw)]

\* The value of an equalized symbol whose divisor is 1, -1, i or -i over 1.
Quotient(q) ==
    CASE q.den.z = Cx(1, 0)  -> q.num
      [] q.den.z = Cx(-1, 0) -> CxMulI(q.num, 2)
      [] q.den.z = Cx(0, 1)  -> CxMulI(q.num, 3)
      [] q.den.z = Cx(0, -1) -> CxMulI(q.num, 1)

\* The noise of one pass, in the units of the signal: none, a spike on every
\* block, or (one transmission only) a spike on the first block.
RunNoise(fn, signal, block_len, cp_len) ==
    IF \A n \in 1..Len(signal) : signal[n] = CxZero
    THEN {[n \in 1..Len(signal) |-> CxZero]}
    ELSE {[n \in 1..Len(signal) |-> CxZero],
          [n \in 1..Len(signal) |-> IF n % block_len = (cp_len + 1) % block_len
                                    THEN Cx(8, 8) ELSE CxZero]}
         \cup (IF fn = "calculate_ber_curve" THEN {}
               ELSE {[n \in 1..Len(signal) |-> IF n = cp_len + 1 THEN Cx(4, 0) ELSE CxZero]})

\* The functions of the manager and the modulations of the curve.
RunFunctions == {"run_image_transmission", "calculate_ber_curve"}

mod_types == <<1, 2, 3>>

(***************************************************************************)
(* The state machine: calls of the library, one action per call.           *)
(***************************************************************************)
NoArg == [op |-> "none"]

Init ==
    /\ pc = "idle"
    /\ arg = NoArg
    /\ mid = <<>>
    /\ res = <<>>
    /\ rng = 0
    /\ metrics = <<>>
    /\ prev_state = <<>>
    /\ t = 0
    /\ cand = <<>>
    /\ trellis = [next_state |-> TRELLIS_NEXT, out_bits |-> TRELLIS_OUT]

\* The caller drops the results and is ready for the next call.
Return ==
    /\ pc \in {"crc_checked", "crc_received_checked", "encoded", "decoded", "scrambled", "scrambled_noised",
              "descrambled", "demodulated", "cp_removed",
              "mapped", "demapped"}
    /\ pc' = "idle"
    /\ arg' = NoArg
    /\ mid' = <<>>
    /\ res' = <<>>
    /\ metrics' = <<>>
    /\ prev_state' = <<>>
    /\ t' = 0
    /\ cand' = <<>>
    /\ UNCHANGED rng
    /\ UNCHANGED trellis

\* crc_attach(bits, crc)
CrcAttach ==
    /\ pc = "idle"
    /\ \E bits \in BitSeqsUpTo(MaxCrcBits), crc \in CRCName :
          /\ arg' = [op |-> "crc", bits |-> bits, crc |-> crc]
          /\ mid' = crc_attach(bits, crc)
    /\ pc' = "crc_attached"
    /\ UNCHANGED <<res, rng, viterbi>>
    /\ UNCHANGED trellis

\* crc_check on what crc_attach returned
CrcCheck ==
    /\ pc = "crc_attached"
    /\ res' = crc_check(mid, arg.crc)
    /\ pc' = "crc_checked"
    /\ UNCHANGED <<arg, mid, rng, viterbi>>
    /\ UNCHANGED trellis

\* What crc_check can be handed: any short bit array, or an attached array
\* with one bit inverted or with its last bits lost.
CrcCheckInputs(crc) ==
    BitSeqsUpTo(MaxCrcRaw)
        \cup UNION {{Invert(a, i, i) : i \in 1..Len(a)} \cup {CutEnd(a, k) : k \in 1..MaxCut} :
                       a \in {crc_attach(b, crc) : b \in BitSeqsUpTo(MaxCrcBits)}}

\* crc_check on an array that is not what crc_attach returned
CrcCheckReceived ==
    /\ pc = "idle"
    /\ \E crc \in CRCName :
          \E bits_with_crc \in CrcCheckInputs(crc) :
             /\ arg' = [op |-> "crc_check", crc |-> crc, bits_with_crc |-> bits_with_crc]
             /\ res' = crc_check(bits_with_crc, crc)
    /\ pc' = "crc_received_checked"
    /\ UNCHANGED <<mid, rng, viterbi>>
    /\ UNCHANGED trellis

\* conv_encode(bits, terminate=, tail_biting=)
ConvEncode ==
    /\ pc = "idle"
    /\ \E bits \in BitSeqsUpTo(MaxEncBits), terminate \in BOOLEAN, tail_biting \in BOOLEAN :
          /\ arg' = [op |-> "encode", bits |-> bits, terminate |-> terminate,
                     tail_biting |-> tail_biting]
          /\ res' = EncRun(bits, terminate, tail_biting)
    /\ pc' = "encoded"
    /\ UNCHANGED <<mid, rng, viterbi>>
    /\ UNCHANGED trellis

\* conv_decode_terminated up to its main loop: truncation, metrics, tables.
DecodeBegin(caller, coded_bits, drop_tail) ==
    /\ pc = "idle"
    /\ arg' = [op |-> "decode", caller |-> caller, coded_bits |-> coded_bits,
               drop_tail |-> drop_tail]
    /\ mid' = Truncate3(coded_bits)
    /\ metrics' = InitMetrics
    /\ prev_state' = <<>>
    /\ t' = 0
    /\ cand' = <<>>
    /\ pc' = "viterbi"
    /\ UNCHANGED <<res, rng>>
    /\ UNCHANGED trellis

\* The decoder called on what the coded link delivers for a message.
DecodeLink ==
    \E info \in BitSeqsUpTo(MaxInfoBits), drop_tail \in BOOLEAN :
        \E sent \in {conv_encode(info, TRUE, FALSE)} :
            \E coded_bits \in LinkOutputs(sent) :
                DecodeBegin([info |-> info, sent |-> sent], coded_bits, drop_tail)

\* The decoder called on an arbitrary bit array.
DecodeRaw ==
    \E coded_bits \in BitSeqsUpTo(MaxRawBits), drop_tail \in BOOLEAN :
        DecodeBegin([info |-> <<>>, sent |-> <<>>], coded_bits, drop_tail)

\* One turn of the main Viterbi recursion (add, compare, select).
ViterbiStep ==
    /\ pc = "viterbi"
    /\ t < NSteps(mid)
    /\ IF 3 * t + 3 > Len(mid)
       THEN \* coded_bits[3 * t + 2] is out of range
            /\ pc' = "decode_error"
            /\ UNCHANGED <<metrics, prev_state, t, cand>>
       ELSE \E acs \in {AddCompareSelect(metrics, Received3(mid, t))} :
                /\ metrics' = [s \in States |-> acs[s].metric]
                /\ prev_state' = Append(prev_state, [s \in States |-> acs[s].prev])
                /\ cand' = [s \in States |-> <<acs[s].cand0, acs[s].cand1>>]
                /\ t' = t + 1
                /\ pc' = pc
    /\ UNCHANGED <<arg, mid, res, rng>>
    /\ UNCHANGED trellis

\* Traceback from state 0 and the return, with the tail dropped or not.
ViterbiFinish ==
    /\ pc = "viterbi"
    /\ t = NSteps(mid)
    /\ LET tb == TraceBack(prev_state, t, 0, <<>>)
       IN  res' = [bits |-> DropTail(tb.u_hat, arg.drop_tail),
                   u_hat |-> tb.u_hat, start |-> tb.state]
    /\ pc' = "decoded"
    /\ UNCHANGED <<arg, mid, rng, viterbi>>
    /\ UNCHANGED trellis

\* apply_scrambling(bits, seed): the first call of a scramble / descramble pair.
Scramble ==
    /\ pc \in {"idle", "noised"}
    /\ \E bits \in BitSeqsUpTo(MaxScrBits), xorable \in BOOLEAN, seed \in (-1)..MaxSeed :
          LET r == apply_scrambling(bits, xorable, seed, rng)
          IN  /\ arg' = [op |-> "scramble", bits |-> bits, xorable |-> xorable,
                         seed |-> seed]
              /\ mid' = [out |-> r.out, raised |-> r.raised, rng_before |-> rng]
              /\ rng' = r.rng
    /\ res' = <<>>
    /\ pc' = "scrambled"
    /\ UNCHANGED viterbi
    /\ UNCHANGED trellis

\* apply_scrambling(scrambled, seed): the second call, on what the first returned.
Descramble ==
    /\ pc \in {"scrambled", "scrambled_noised"}
    /\ ~mid.raised
    /\ LET r == apply_scrambling(mid.out, TRUE, arg.seed, rng)
       IN  /\ res' = [out |-> r.out, raised |-> r.raised, rng_before |-> rng]
           /\ rng' = r.rng
    /\ pc' = "descrambled"
    /\ UNCHANGED <<arg, mid, viterbi>>
    /\ UNCHANGED trellis

\* apply_awgn draws its noise from the process-wide generator.
AwgnNoise ==
    /\ pc \in {"idle", "noised", "scrambled", "scrambled_noised"}
    /\ \E n \in 1..MaxNoise : rng' = AwgnDraw(rng, n)
    /\ pc' = IF pc \in {"idle", "noised"} THEN "noised" ELSE "scrambled_noised"
    /\ UNCHANGED <<arg, mid, res, viterbi>>
    /\ UNCHANGED trellis

\* modulate_ofdm(symbols, n_fft, nc)
ModulateOfdm ==
    /\ pc = "idle"
    /\ \E symbols \in SymbolArrays, n_fft \in FftSizes :
          \E nc \in 1..(n_fft - 1) :
             /\ arg' = [op |-> "ofdm", symbols |-> symbols, n_fft |-> n_fft, nc |-> nc]
             /\ mid' = modulate_ofdm(symbols, n_fft, nc)
    /\ res' = <<>>
    /\ pc' = "modulated"
    /\ UNCHANGED <<rng, viterbi>>
    /\ UNCHANGED trellis

\* demodulate_ofdm(signal, n_fft, nc) on what the modulator returned
DemodulateOfdm ==
    /\ pc = "modulated"
    /\ res' = demodulate_ofdm(mid.signal, arg.n_fft, arg.nc)
    /\ pc' = "demodulated"
    /\ UNCHANGED <<arg, mid, rng, viterbi>>
    /\ UNCHANGED trellis

\* add_cyclic_prefix(signal, num_blocks, n_fft, cp_ratio)
AddCyclicPrefix ==
    /\ pc = "idle"
    /\ \E n_fft \in 1..MaxCpFft, num_blocks \in 0..MaxBlocks, cp_ratio \in CpRatios :
          \E signal \in [1..(num_blocks * n_fft) -> Samples] :
             /\ arg' = [op |-> "cp", signal |-> signal, num_blocks |-> num_blocks,
                        n_fft |-> n_fft, cp_ratio |-> cp_ratio]
             /\ mid' = add_cyclic_prefix(signal, num_blocks, n_fft, cp_ratio)
    /\ res' = <<>>
    /\ pc' = "cp_added"
    /\ UNCHANGED <<rng, viterbi>>
    /\ UNCHANGED trellis

\* remove_cyclic_prefix(signal_cp, n_fft, cp_len) on what the insertion returned
RemoveCyclicPrefix ==
    /\ pc = "cp_added"
    /\ res' = remove_cyclic_prefix(mid.signal, arg.n_fft, mid.cp_len)
    /\ pc' = "cp_removed"
    /\ UNCHANGED <<arg, mid, rng, viterbi>>
    /\ UNCHANGED trellis

\* map_bits_to_symbols(bits, mod_type)
MapBits ==
    /\ pc = "idle"
    /\ \E bits \in BitSeqsUpTo(MaxModBits), mod_type \in ModTypes :
          /\ arg' = [op |-> "map", bits |-> bits, mod_type |-> mod_type]
          /\ mid' = map_bits_to_symbols(bits, mod_type)
    /\ res' = <<>>
    /\ pc' = "mapped"
    /\ UNCHANGED <<rng, viterbi>>
    /\ UNCHANGED trellis

\* demap_symbols_to_bits(symbols, mod_type) on the symbols the mapper returned,
\* with the mapper's index or with an unsupported one
DemapSymbols ==
    /\ pc = "mapped"
    /\ ~mid.raised
    /\ \E mod_type \in {arg.mod_type} \cup (ModTypes \ SupportedMods) :
          LET r == demap_symbols_to_bits(mid.symbols, mod_type)
          IN  res' = [raised |-> r.raised, bits |-> r.bits, mod_type |-> mod_type]
    /\ pc' = "demapped"
    /\ UNCHANGED <<arg, mid, rng, viterbi>>
    /\ UNCHANGED trellis

\* apply_rayleigh(signal, snr_db, num_taps): the taps, the convolution, the noise
ApplyRayleigh ==
    /\ pc = "idle"
    /\ \E len \in 0..MaxChanLen, num_taps \in 1..MaxTaps :
          \E signal \in [1..len -> Samples \cup {CxZero}] :
             \E noise \in (IF len = 0 THEN {<<>>}
                            ELSE NoiseArrays(Convolve(signal, ImpulseResponse(num_taps).num))) :
                LET r == apply_rayleigh(signal, num_taps, noise)
                IN  /\ arg' = [op |-> "channel", signal |-> signal, num_taps |-> num_taps]
                    /\ mid' = r
                    /\ rng' = IF r.raised THEN rng ELSE AwgnDraw(rng, Len(r.signal))
                    /\ pc' = IF r.raised THEN "channel_raised" ELSE "channel_applied"
    /\ res' = <<>>
    /\ UNCHANGED viterbi
    /\ UNCHANGED trellis

\* equalize_channel(rx_freq_symbols, h, n_fft, nc), with an impulse response
\* the channel returns or with one that fades some carrier out
EqualizeChannel ==
    /\ pc = "idle"
    /\ \E rx \in RxArrays, n_fft \in FftSizes :
          \E nc \in 1..(n_fft - 1) :
             \E h \in FadingResponses \cup {ImpulseResponse(n) : n \in 1..MaxTaps} :
                LET e == equalize_channel(rx, h, n_fft, nc)
                IN  /\ arg' = [op |-> "equalize", rx_freq_symbols |-> rx, h |-> e.h,
                               n_fft |-> n_fft, nc |-> nc]
                    /\ mid' = [h |-> h]
                    /\ res' = e
    /\ pc' = "equalized"
    /\ UNCHANGED <<rng, viterbi>>
    /\ UNCHANGED trellis

\* equalize_channel on what apply_rayleigh returned: the signal stands for the
\* received symbols, h_channel is the array the channel handed over.
EqualizeReceived ==
    /\ pc = "channel_applied"
    /\ LET p == get_ofdm_params(1, 1)
           e == equalize_channel(mid.signal, mid.h, p.n_fft, p.nc)
       IN  /\ arg' = [op |-> "equalize", rx_freq_symbols |-> mid.signal, h |-> e.h,
                      n_fft |-> p.n_fft, nc |-> p.nc, num_taps |-> arg.num_taps]
           /\ mid' = [h |-> mid.h]
           /\ res' = e
    /\ pc' = "equalized"
    /\ UNCHANGED <<rng, viterbi>>
    /\ UNCHANGED trellis

\* equalize_channel a second time, with the same arrays as the first call left
\* them.
EqualizeAgain ==
    /\ pc = "equalized"
    /\ LET e == equalize_channel(arg.rx_freq_symbols, arg.h, arg.n_fft, arg.nc)
       IN  /\ arg' = [arg EXCEPT !.h = e.h]
           /\ res' = [first |-> res, second |-> e]
    /\ pc' = "equalized_again"
    /\ UNCHANGED <<mid, rng, viterbi>>
    /\ UNCHANGED trellis

\* remove_cyclic_prefix(rx_signal_cp, n_fft, cp_len) on what the channel
\* returned, for a framing of blocks no longer than the signal
RemoveCpReceived ==
    /\ pc = "channel_applied"
    /\ \E n_fft \in 1..MaxChanLen, cp_len \in 0..(MaxChanLen - 1) :
          /\ n_fft + cp_len <= Len(arg.signal)
          /\ res' = [n_fft |-> n_fft, cp_len |-> cp_len,
                     signal |-> remove_cyclic_prefix(mid.signal, n_fft, cp_len)]
    /\ pc' = "channel_cp_removed"
    /\ UNCHANGED <<arg, mid, rng, viterbi>>
    /\ UNCHANGED trellis

\* A behaviour is one chain of calls: the generator state is all a chain
\* leaves behind, and no call of the chain reads it.
NextChan ==
    \/ ApplyRayleigh \/ RemoveCpReceived \/ EqualizeReceived
    \/ EqualizeChannel \/ EqualizeAgain

SpecChan == Init /\ [][NextChan]_vars

(***************************************************************************)
(* The manager, one action per stage.  arg holds the locals of the call,   *)
(* mid the stages that have run, pc the stage that runs next.  A behaviour *)
(* is one call: the generator state is all a call leaves behind, and no    *)
(* stage reads it (the scrambler seeds its own, the noise is any noise).   *)
(***************************************************************************)
\* The call: the arguments, one bandwidth and profile, one path.
RunCall ==
    /\ pc = "idle"
    /\ \E fn \in RunFunctions, image \in Images, enable_fec \in BOOLEAN :
          \E mod_type \in (IF fn = "run_image_transmission" THEN ModTypes ELSE {1}) :
             /\ arg' = [op |-> "run", fn |-> fn, image |-> image, bw_idx |-> 1,
                        profile_idx |-> 1, mod_type |-> mod_type, num_paths |-> 1,
                        enable_fec |-> enable_fec]
             /\ pc' = IF fn = "run_image_transmission" THEN "run_params" ELSE "run_image"
    /\ mid' = <<>>
    /\ res' = <<>>
    /\ UNCHANGED <<rng, viterbi>>
    /\ UNCHANGED trellis

\* A plausible slip: no try/except around the stages.
Raise_Escapes(e) ==
    /\ res' = [raised |-> e]
    /\ pc' = "run_returned"
    /\ UNCHANGED arg

\* An exception: run_image_transmission catches it and returns the failure,
\* calculate_ber_curve lets it through.
Raise(e) ==
    /\ res' = IF arg.fn = "run_image_transmission"
              THEN [success |-> FALSE, error |-> e]
              ELSE [raised |-> e]
    /\ pc' = "run_returned"
    /\ UNCHANGED arg

RunParams ==
    /\ pc = "run_params"
    /\ LET p == get_ofdm_params(arg.bw_idx, arg.profile_idx)
       IN  IF p.raised THEN Raise("KeyError")
           ELSE /\ arg' = [n_fft |-> p.n_fft, nc |-> p.nc, cp_ratio |-> p.cp_ratio,
                           mod_pos |-> 1, ber_curves |-> <<>>] @@ arg
                /\ pc' = IF arg.fn = "run_image_transmission" THEN "run_image" ELSE "run_map"
                /\ UNCHANGED res
    /\ UNCHANGED <<mid, rng, viterbi>>
    /\ UNCHANGED trellis

RunLoadImage ==
    /\ pc = "run_image"
    /\ LET r == image_to_bits(arg.image, img_size)
       IN  IF r.raised THEN Raise("FileNotFoundError")
           ELSE /\ arg' = [tx_bits_raw |-> r.bits] @@ arg
                /\ pc' = "run_encode"
                /\ UNCHANGED res
    /\ UNCHANGED <<mid, rng, viterbi>>
    /\ UNCHANGED trellis

RunEncode ==
    /\ pc = "run_encode"
    /\ LET c == TxCoded(arg.tx_bits_raw, arg.enable_fec)
       IN  /\ arg' = [tx_bits_crc |-> c.tx_bits_crc, tx_bits_coded |-> c.tx_bits_coded] @@ arg
           /\ mid' = mid \o c.stages
    /\ pc' = "run_scramble"
    /\ UNCHANGED <<res, rng, viterbi>>
    /\ UNCHANGED trellis

RunScramble ==
    /\ pc = "run_scramble"
    /\ LET r == apply_scrambling(arg.tx_bits_coded, TRUE, DEFAULT_SEED, rng)
       IN  /\ arg' = [tx_bits |-> r.out] @@ arg
           /\ rng' = r.rng
    /\ mid' = Append(mid, "scrambling")
    /\ pc' = IF arg.fn = "run_image_transmission" THEN "run_map" ELSE "run_params"
    /\ UNCHANGED <<res, viterbi>>
    /\ UNCHANGED trellis

\* The modulation of the pass: the caller's, or the curve's current one.
PassMod == IF arg.fn = "run_image_transmission" THEN arg.mod_type ELSE mod_types[arg.mod_pos]

RunMap ==
    /\ pc = "run_map"
    /\ mid' = Append(mid, "constellation mapping")
    /\ LET r == map_bits_to_symbols(arg.tx_bits, PassMod)
       IN  IF r.raised THEN Raise("ValueError")
           ELSE /\ arg' = [tx_symbols |-> r.symbols, ber_values |-> <<>>] @@ arg
                /\ pc' = "run_modulate"
                /\ UNCHANGED res
    /\ UNCHANGED <<rng, viterbi>>
    /\ UNCHANGED trellis

RunModulate ==
    /\ pc = "run_modulate"
    /\ LET m == modulate_ofdm([i \in 1..Len(arg.tx_symbols) |-> arg.tx_symbols[i].point],
                              arg.n_fft, arg.nc)
       IN  arg' = [ofdm_time_signal |-> m.signal, num_blocks |-> m.num_blocks] @@ arg
    /\ mid' = Append(mid, "OFDM modulation")
    /\ pc' = "run_add_cp"
    /\ UNCHANGED <<res, rng, viterbi>>
    /\ UNCHANGED trellis

RunAddCp ==
    /\ pc = "run_add_cp"
    /\ LET c == add_cyclic_prefix(arg.ofdm_time_signal, arg.num_blocks, arg.n_fft, arg.cp_ratio)
       IN  arg' = [tx_signal_cp |-> c.signal, cp_len |-> c.cp_len] @@ arg
    /\ pc' = "run_channel"
    /\ UNCHANGED <<mid, res, rng, viterbi>>
    /\ UNCHANGED trellis

RunChannel ==
    /\ pc = "run_channel"
    /\ \E noise \in RunNoise(arg.fn, arg.tx_signal_cp, arg.n_fft + arg.cp_len, arg.cp_len) :
          LET r == apply_rayleigh(arg.tx_signal_cp, arg.num_paths, noise)
          IN  IF r.raised
              THEN Raise("ValueError") /\ UNCHANGED rng
              ELSE /\ arg' = [rx_signal_cp |-> r.signal, h_channel |-> r.h] @@ arg
                   /\ rng' = AwgnDraw(rng, Len(r.signal))
                   /\ pc' = "run_remove_cp"
                   /\ UNCHANGED res
    /\ mid' = Append(mid, "channel")
    /\ UNCHANGED viterbi
    /\ UNCHANGED trellis

RunRemoveCp ==
    /\ pc = "run_remove_cp"
    /\ arg' = [rx_signal_no_cp |->
                  remove_cyclic_prefix(arg.rx_signal_cp, arg.n_fft, arg.cp_len)] @@ arg
    /\ mid' = Append(mid, "OFDM demodulation")
    /\ pc' = "run_demodulate"
    /\ UNCHANGED <<res, rng, viterbi>>
    /\ UNCHANGED trellis

RunDemodulate ==
    /\ pc = "run_demodulate"
    /\ arg' = [rx_symbols_distorted |->
                  demodulate_ofdm(arg.rx_signal_no_cp, arg.n_fft, arg.nc)] @@ arg
    /\ pc' = "run_equalize"
    /\ UNCHANGED <<mid, res, rng, viterbi>>
    /\ UNCHANGED trellis

RunEqualize ==
    /\ pc = "run_equalize"
    /\ LET e == equalize_channel(arg.rx_symbols_distorted, arg.h_channel, arg.n_fft, arg.nc)
       IN  arg' = [rx_symbols_equalized |->
                      [i \in 1..Len(e.symbols) |-> Quotient(e.symbols[i])]] @@ arg
    /\ mid' = Append(mid, "equalization")
    /\ pc' = "run_demap"
    /\ UNCHANGED <<res, rng, viterbi>>
    /\ UNCHANGED trellis

RunDemap ==
    /\ pc = "run_demap"
    /\ mid' = Append(mid, "constellation demapping")
    /\ LET r == demap_symbols_to_bits(
                    [i \in 1..Len(arg.rx_symbols_equalized) |->
                        [point |-> arg.rx_symbols_equalized[i], norm |-> norm_factors[PassMod]]],
                    PassMod)
       IN  IF r.raised THEN Raise("ValueError")
           ELSE /\ arg' = [rx_bits_demapped |-> r.bits] @@ arg
                /\ pc' = "run_descramble"
                /\ UNCHANGED res
    /\ UNCHANGED <<rng, viterbi>>
    /\ UNCHANGED trellis

\* rx_bits_scrambled[: len(tx_bits)], then apply_scrambling
RunDescramble ==
    /\ pc = "run_descramble"
    /\ LET rx_bits_scrambled == TruncateTo(arg.rx_bits_demapped, Len(arg.tx_bits))
           r == apply_scrambling(rx_bits_scrambled, TRUE, DEFAULT_SEED, rng)
       IN  /\ arg' = [rx_bits_scrambled |-> rx_bits_scrambled, rx_bits_coded |-> r.out] @@ arg
           /\ rng' = r.rng
    /\ mid' = Append(mid, "descrambling")
    /\ pc' = "run_decode"
    /\ UNCHANGED <<res, viterbi>>
    /\ UNCHANGED trellis

RunDecode ==
    /\ pc = "run_decode"
    /\ \E d \in {RxDecoded(arg.fn, arg.rx_bits_coded, arg.tx_bits_raw, arg.tx_bits_crc,
                             arg.enable_fec)} :
           /\ arg' = [rx_bits_after_viterbi |-> d.rx_bits_after_viterbi,
                      rx_bits |-> d.rx_bits, crc_check_ok |-> d.crc_check_ok,
                      crc_ok |-> d.crc_ok] @@ arg
           /\ mid' = mid \o d.stages
    /\ pc' = "run_metrics"
    /\ UNCHANGED <<res, rng, viterbi>>
    /\ UNCHANGED trellis

\* The comparison with the original bits, and the return or the next pass.
RunMetrics ==
    /\ pc = "run_metrics"
    /\ IF Len(arg.rx_bits) # Len(arg.tx_bits_raw)
       THEN \* the comparison of two arrays of different shapes
            Raise("ValueError")
       ELSE LET ber == BitErrorRate(arg.tx_bits_raw, arg.rx_bits)
                img == bits_to_image(arg.rx_bits, img_size)
                ber_values == Append(arg.ber_values, ber)
            IN  IF arg.fn = "run_image_transmission"
                THEN IF img.raised THEN Raise("ValueError")
                     ELSE /\ res' = [success |-> TRUE, tx_image |-> arg.tx_bits_raw,
                                     rx_image |-> img.img, ber |-> ber,
                                     info |-> [fec |-> arg.enable_fec, crc |-> arg.crc_ok]]
                          /\ pc' = "run_returned"
                          /\ UNCHANGED arg
                ELSE IF Len(ber_values) < SnrPoints
                THEN /\ arg' = [ber_values |-> ber_values] @@ arg
                     /\ pc' = "run_modulate"
                     /\ UNCHANGED res
                ELSE IF arg.mod_pos < Len(mod_types)
                THEN /\ arg' = [ber_curves |-> Append(arg.ber_curves, ber_values),
                                mod_pos |-> arg.mod_pos + 1] @@ arg
                     /\ pc' = "run_map"
                     /\ UNCHANGED res
                ELSE /\ res' = [ber_curves |-> Append(arg.ber_curves, ber_values)]
                     /\ pc' = "run_returned"
                     /\ UNCHANGED arg
    /\ UNCHANGED <<mid, rng, viterbi>>
    /\ UNCHANGED trellis

NextRun ==
    \/ RunCall \/ RunParams \/ RunLoadImage \/ RunEncode \/ RunScramble \/ RunMap
    \/ RunModulate \/ RunAddCp \/ RunChannel \/ RunRemoveCp \/ RunDemodulate
    \/ RunEqualize \/ RunDemap \/ RunDescramble \/ RunDecode \/ RunMetrics

SpecRun == Init /\ [][NextRun]_vars

(***************************************************************************)
(* The bit-level chain of run_image_transmission on its own: the coding    *)
(* and scrambling of a raw bit array, and the receive chain on the bits    *)
(* of a link that makes no error.                                          *)
(***************************************************************************)
\* crc_attach, conv_encode (FEC on) and apply_scrambling of the raw bits
LinkTx ==
    /\ pc = "idle"
    /\ \E tx_bits_raw \in BitSeqsUpTo(MaxLinkBits), enable_fec \in BOOLEAN :
          LET c == TxCoded(tx_bits_raw, enable_fec)
              r == apply_scrambling(c.tx_bits_coded, TRUE, DEFAULT_SEED, rng)
          IN  /\ arg' = [op |-> "link", fn |-> "run_image_transmission",
                         tx_bits_raw |-> tx_bits_raw, enable_fec |-> enable_fec,
                         tx_bits_crc |-> c.tx_bits_crc, tx_bits_coded |-> c.tx_bits_coded,
                         tx_bits |-> r.out]
              /\ rng' = r.rng
    /\ pc' = "link_sent"
    /\ UNCHANGED <<mid, res, viterbi>>
    /\ UNCHANGED trellis

\* The receive chain from the demapper's bits on: the bits the mapper was
\* given, followed by the bits of its padding.
LinkRx ==
    /\ pc = "link_sent"
    /\ \E padding \in BitSeqsUpTo(MaxLinkPad) :
          LET rx_bits_demapped  == arg.tx_bits \o padding
              rx_bits_scrambled == TruncateTo(rx_bits_demapped, Len(arg.tx_bits))
              r == apply_scrambling(rx_bits_scrambled, TRUE, DEFAULT_SEED, rng)
          IN  \E d \in {RxDecoded(arg.fn, r.out, arg.tx_bits_raw, arg.tx_bits_crc,
                                  arg.enable_fec)} :
                  /\ mid' = [rx_bits_demapped |-> rx_bits_demapped,
                             rx_bits_coded |-> r.out,
                             rx_bits_after_viterbi |-> d.rx_bits_after_viterbi]
                  /\ res' = [rx_bits |-> d.rx_bits, crc_ok |-> d.crc_ok,
                             ber |-> BitErrorRate(arg.tx_bits_raw, d.rx_bits)]
                  /\ rng' = r.rng
    /\ pc' = "link_received"
    /\ UNCHANGED <<arg, viterbi>>
    /\ UNCHANGED trellis

NextLink == LinkTx \/ LinkRx

SpecLink == Init /\ [][NextLink]_vars

(***************************************************************************)
(* Two calls interleaved on the one process-wide generator: a scrambler    *)
(* call with another scrambler call or with a noise draw of apply_awgn.    *)
(* mid[i] is call i: its arguments, the statement it is at, its locals.    *)
(* Each statement that touches the generator is one step.                  *)
(***************************************************************************)
Threads == 1..2

ScrambleCall(bits, seed) ==
    [kind |-> "apply_scrambling", bits |-> bits, seed |-> seed, n |-> 0,
     at |-> "start", state |-> 0, sequence |-> <<>>, out |-> <<>>, drew_from |-> <<>>]

NoiseCall(n) ==
    [kind |-> "apply_awgn", bits |-> <<>>, seed |-> 0, n |-> n,
     at |-> "start", state |-> 0, sequence |-> <<>>, out |-> <<>>, drew_from |-> <<>>]

\* The two calls begin; overlapped records whether one has begun while the
\* other was between its first and its last statement.
ThreadsStart ==
    /\ pc = "idle"
    /\ \E b1 \in BitSeqsUpTo(MaxThreadBits), s1 \in 0..MaxSeed :
          \E second \in {ScrambleCall(b2, s2) : b2 \in BitSeqsUpTo(MaxThreadBits),
                                                  s2 \in 0..MaxSeed}
                            \cup {NoiseCall(n) : n \in 1..MaxNoise} :
             mid' = <<ScrambleCall(b1, s1), second>>
    /\ arg' = [op |-> "threads", rng_before |-> rng, overlapped |-> FALSE]
    /\ pc' = "threads"
    /\ UNCHANGED <<res, rng, viterbi>>
    /\ UNCHANGED trellis

Running(i) == mid[i].at \notin {"start", "done"}

Begin(i) == arg' = [arg EXCEPT !.overlapped = @ \/ Running(3 - i)]

\* state = np.random.get_state()
ScrSaveState ==
    /\ pc = "threads"
    /\ \E i \in Threads :
          /\ mid[i].kind = "apply_scrambling" /\ mid[i].at = "start"
          /\ mid' = [mid EXCEPT ![i].state = rng, ![i].at = "saved"]
          /\ Begin(i)
    /\ UNCHANGED <<pc, res, rng, viterbi>>
    /\ UNCHANGED trellis

\* np.random.seed(seed)
ScrSeed ==
    /\ pc = "threads"
    /\ \E i \in Threads :
          /\ mid[i].kind = "apply_scrambling" /\ mid[i].at = "saved"
          /\ rng' = RngSeed(mid[i].seed)
          /\ mid' = [mid EXCEPT ![i].at = "seeded"]
    /\ UNCHANGED <<pc, arg, res, viterbi>>
    /\ UNCHANGED trellis

\* scrambling_sequence = np.random.randint(0, 2, len(bits))
ScrDraw ==
    /\ pc = "threads"
    /\ \E i \in Threads :
          /\ mid[i].kind = "apply_scrambling" /\ mid[i].at = "seeded"
          /\ LET drawn == RandInt(rng, Len(mid[i].bits))
             IN  /\ rng' = drawn.state
                 /\ mid' = [mid EXCEPT ![i].sequence = drawn.bits, ![i].at = "drawn"]
    /\ UNCHANGED <<pc, arg, res, viterbi>>
    /\ UNCHANGED trellis

\* np.bitwise_xor(bits, scrambling_sequence); finally: np.random.set_state(state)
ScrXorRestore ==
    /\ pc = "threads"
    /\ \E i \in Threads :
          /\ mid[i].kind = "apply_scrambling" /\ mid[i].at = "drawn"
          /\ rng' = Restore(mid[i].state, rng, FALSE)
          /\ mid' = [mid EXCEPT
                        ![i].out = [k \in 1..Len(mid[i].bits) |->
                                       XorInt(mid[i].bits[k], mid[i].sequence[k])],
                        ![i].at = "done"]
    /\ UNCHANGED <<pc, arg, res, viterbi>>
    /\ UNCHANGED trellis

\* np.random.randn(len(signal)), the real parts
NoiseDrawReal ==
    /\ pc = "threads"
    /\ \E i \in Threads :
          /\ mid[i].kind = "apply_awgn" /\ mid[i].at = "start"
          /\ rng' = RandInt(rng, mid[i].n).state
          /\ mid' = [mid EXCEPT ![i].drew_from = <<rng>>, ![i].at = "real_drawn"]
          /\ Begin(i)
    /\ UNCHANGED <<pc, res, viterbi>>
    /\ UNCHANGED trellis

\* np.random.randn(len(signal)), the imaginary parts
NoiseDrawImag ==
    /\ pc = "threads"
    /\ \E i \in Threads :
          /\ mid[i].kind = "apply_awgn" /\ mid[i].at = "real_drawn"
          /\ rng' = RandInt(rng, mid[i].n).state
          /\ mid' = [mid EXCEPT ![i].drew_from = Append(@, rng), ![i].at = "done"]
    /\ UNCHANGED <<pc, arg, res, viterbi>>
    /\ UNCHANGED trellis

NextThreads ==
    \/ ThreadsStart \/ ScrSaveState \/ ScrSeed \/ ScrDraw \/ ScrXorRestore
    \/ NoiseDrawReal \/ NoiseDrawImag

SpecThreads == Init /\ [][NextThreads]_vars

NextCrc == CrcAttach \/ CrcCheck \/ CrcCheckReceived \/ Return

SpecCrc == Init /\ [][NextCrc]_vars

NextConv == ConvEncode \/ Return

SpecConv == Init /\ [][NextConv]_vars

NextScr == Scramble \/ Descramble \/ AwgnNoise \/ Return

SpecScr == Init /\ [][NextScr]_vars

NextOfdm ==
    ModulateOfdm \/ DemodulateOfdm \/ AddCyclicPrefix \/ RemoveCyclicPrefix \/ Return

SpecOfdm == Init /\ [][NextOfdm]_vars

NextMod == MapBits \/ DemapSymbols \/ Return

SpecMod == Init /\ [][NextMod]_vars

\* Encode and decode calls in any order.
NextCodec ==
    ConvEncode \/ DecodeLink \/ DecodeRaw \/ ViterbiStep \/ ViterbiFinish \/ Return

SpecCodec == Init /\ [][NextCodec]_vars

NextViterbi == DecodeLink \/ DecodeRaw \/ ViterbiStep \/ ViterbiFinish \/ Return

SpecViterbi == Init /\ [][NextViterbi]_vars

(***************************************************************************)
(* C1.  CRC round trip: crc_check(crc_attach(b, name), name) returns the   *)
(* payload b and ok = TRUE, for every bit array b and every CRC name.      *)
(***************************************************************************)
C1_CrcRoundTrip ==
    pc = "crc_checked" => (res.payload = arg.bits /\ res.ok)

\* What does hold: the payload comes back, and ok is TRUE for the empty array.
C1_PayloadBack ==
    pc = "crc_checked" => (res.payload = arg.bits /\ (arg.bits = <<>> => res.ok))

C8_TailBitingWrap ==
    (pc = "encoded" /\ arg.tail_biting /\ Len(arg.bits) >= memory) =>
        res.state = res.state0

(***************************************************************************)
(* Helpers of the claims about the decoder.                                *)
(***************************************************************************)
Hamming(a, b) == Cardinality({i \in 1..Len(a) : a[i] # b[i]})

\* The coded bits and the final state of the path input u describes from state 0.
PathFromZero(u) == EncLoop(u, 1, 0, <<>>)

\* The inputs, of every length the decoder meets, whose path from state 0 ends in
\* state 0, each with the coded bits of its path.
ZeroPaths ==
    {[u |-> u, out |-> PathFromZero(u).out] :
        u \in {v \in BitSeqsUpTo(MaxInfoBits + memory) : PathFromZero(v).state = 0}}

ZeroPathsOf(n) == {z \in ZeroPaths : Len(z.u) = n}

\* The decoder was given exactly the coded bits of the message.
Unaltered == arg.caller.sent # <<>> /\ arg.coded_bits = arg.caller.sent

(***************************************************************************)
(* C2.  Encode/decode identity: conv_decode_terminated (default drop_tail) *)
(* applied to conv_encode(b, terminate=True, tail_biting=False) returns b  *)
(* when no coded bit is altered.                                           *)
(***************************************************************************)
C2_DecodeEncode ==
    (pc = "decoded" /\ arg.drop_tail /\ Unaltered) => res.bits = arg.caller.info

C2_Witness ==
    /\ pc = "decoded"
    /\ arg.drop_tail
    /\ Unaltered
    /\ Len(arg.caller.info) >= 2
    /\ \E i \in 1..Len(arg.caller.info) : arg.caller.info[i] = 1
    /\ res.bits = arg.caller.info

(***************************************************************************)
(* C9.  Viterbi optimality: the n decoded bits (before the tail is         *)
(* dropped) describe a trellis path from state 0 to state 0 whose coded    *)
(* output is at least as close (Hamming distance) to the 3n received bits  *)
(* as that of every other n-bit input whose path starts and ends in 0.     *)
(***************************************************************************)
C9_ViterbiOptimal ==
    pc = "decoded" =>
        LET n == Len(mid) \div 3
        IN  /\ Len(res.u_hat) = n
            /\ res.start = 0
            /\ \E z \in ZeroPathsOf(n) :
                  /\ z.u = res.u_hat
                  /\ \A c \in ZeroPathsOf(n) : Hamming(z.out, mid) <= Hamming(c.out, mid)

\* The link inverted so much that the closest path is not the one that was sent.
C9_Witness ==
    /\ pc = "decoded"
    /\ Len(arg.caller.info) >= 1
    /\ Len(mid) = Len(arg.caller.sent)
    /\ res.u_hat # arg.caller.info \o Zeros(memory)
    /\ \E z \in ZeroPathsOf(Len(mid) \div 3) :
          /\ z.u = res.u_hat
          /\ Hamming(z.out, mid) > 0
          /\ Hamming(z.out, mid) < Hamming(arg.caller.sent, mid)

(***************************************************************************)
(* C10.  Viterbi totality and output length: on every bit array the        *)
(* decoder runs to its return without an error; with n_steps the length    *)
(* divided by 3 (rounded down) it returns n_steps - m bits when drop_tail   *)
(* is set and n_steps >= m, and n_steps bits otherwise.                    *)
(***************************************************************************)
C10_DecodeTotal ==
    /\ pc # "decode_error"
    /\ pc = "viterbi" =>
          /\ t <= Len(arg.coded_bits) \div 3
          /\ Len(prev_state) = t
    /\ pc = "decoded" =>
          LET n_steps == Len(arg.coded_bits) \div 3
          IN  /\ t = n_steps
              /\ Len(res.bits) = IF arg.drop_tail /\ n_steps >= memory
                                 THEN n_steps - memory
                                 ELSE n_steps

\* A non-codeword whose length is no multiple of 3, decoded with the tail dropped.
C10_Witness ==
    /\ pc = "decoded"
    /\ arg.drop_tail
    /\ Len(arg.coded_bits) % 3 # 0
    /\ Len(arg.coded_bits) \div 3 >= memory
    /\ \A z \in ZeroPathsOf(Len(mid) \div 3) : z.out # mid
    /\ Len(res.bits) = (Len(arg.coded_bits) \div 3) - memory

(***************************************************************************)
(* C3.  Scrambler involution: apply_scrambling(apply_scrambling(b, s), s)   *)
(* is b for every bit array b and every seed s the generator accepts,      *)
(* whatever the ambient generator state is before each of the two calls.   *)
(***************************************************************************)
C3_ScrambleInvolution ==
    pc = "descrambled" => (~res.raised /\ res.out = arg.bits)

\* The two calls ran on different ambient states and the first changed a bit.
C3_Witness ==
    /\ pc = "descrambled"
    /\ Len(arg.bits) >= 2
    /\ mid.out # arg.bits
    /\ mid.rng_before # res.rng_before
    /\ res.out = arg.bits

(***************************************************************************)
(* C6.  Scrambler frame condition: when apply_scrambling has returned or   *)
(* raised, the process-wide generator state is the one it had just before  *)
(* the call, so a later noise draw is what it would have been without it.  *)
(***************************************************************************)
C6_RngRestored ==
    /\ pc = "scrambled" =>
          /\ rng = mid.rng_before
          /\ \A n \in 1..MaxNoise : AwgnDraw(rng, n) = AwgnDraw(mid.rng_before, n)
    /\ pc = "descrambled" => rng = res.rng_before

\* The scrambler raised after it had seeded and drawn, on a state the seed
\* does not lead to.
C6_Witness ==
    /\ pc = "scrambled"
    /\ mid.raised
    /\ ~arg.xorable
    /\ Len(arg.bits) >= 1
    /\ RandInt(RngSeed(arg.seed), Len(arg.bits)).state # mid.rng_before
    /\ rng = mid.rng_before

(***************************************************************************)
(* C4.  Cyclic-prefix round trip: for every signal of num_blocks blocks of *)
(* n_fft samples and every cp_ratio strictly between 0 and 1, removing the *)
(* prefix of int(n_fft * cp_ratio) samples from the signal the insertion   *)
(* returned gives the signal back.                                         *)
(***************************************************************************)
C4_CpRoundTrip ==
    pc = "cp_removed" => res = arg.signal

\* The round trip where the prefix has at least one sample.
C4_CpRoundTripPositive ==
    (pc = "cp_removed" /\ mid.cp_len >= 1) => res = arg.signal

(***************************************************************************)
(* C5.  OFDM round trip as stated: demodulating the modulated signal       *)
(* returns exactly the symbols given, for 1 <= nc < n_fft.                 *)
(***************************************************************************)
C5_OfdmRoundTrip ==
    pc = "demodulated" => res = arg.symbols

(***************************************************************************)
(* C5, amended.  Demodulating the modulated signal returns the symbols     *)
(* given followed by zeros up to num_blocks * nc symbols; it is exactly    *)
(* the symbols given when their number is a multiple of nc.                *)
(***************************************************************************)
C5_OfdmRoundTripPadded ==
    pc = "demodulated" =>
        LET n == Len(arg.symbols)
            total == CeilDiv(n, arg.nc) * arg.nc
        IN  /\ Len(res) = total
            /\ \A i \in 1..total :
                  res[i] = IF i <= n THEN arg.symbols[i] ELSE CxZero
            /\ (n % arg.nc = 0 => res = arg.symbols)

\* Two blocks, the second one padded.
C5_Witness ==
    /\ pc = "demodulated"
    /\ Len(arg.symbols) % arg.nc # 0
    /\ mid.num_blocks = 2
    /\ Len(res) > Len(arg.symbols)
    /\ SubSeq(res, 1, Len(arg.symbols)) = arg.symbols

(***************************************************************************)
(* C11.  CRC check on short input: an input of fewer than L bits is        *)
(* returned unchanged as the payload with ok = FALSE, and nothing is       *)
(* raised; for an input of at least L bits the payload is the input        *)
(* without its last L bits, whether ok is TRUE or FALSE.                   *)
(***************************************************************************)
C11_CrcCheckShort ==
    pc = "crc_received_checked" =>
        LET L  == CRC_POLYS[arg.crc].L
            in == arg.bits_with_crc
        IN  IF Len(in) < L
            THEN res.payload = in /\ res.ok = FALSE
            ELSE /\ res.payload = SubSeq(in, 1, Len(in) - L)
                 /\ res.ok \in BOOLEAN

\* An input of exactly L bits that fails the check: the payload is empty.
C11_Witness ==
    /\ pc = "crc_received_checked"
    /\ Len(arg.bits_with_crc) = CRC_POLYS[arg.crc].L
    /\ \E i \in 1..Len(arg.bits_with_crc) : arg.bits_with_crc[i] = 1
    /\ res.payload = <<>>
    /\ ~res.ok

(***************************************************************************)
(* C12.  Unsupported modulation: for a modulation index outside {1, 2, 3}  *)
(* map_bits_to_symbols and demap_symbols_to_bits raise before producing    *)
(* any symbol or bit; indices 1, 2, 3 select 2, 4, 6 bits per symbol.      *)
(***************************************************************************)
C12_UnsupportedModulation ==
    /\ pc = "mapped" =>
          IF arg.mod_type \in SupportedMods
          THEN /\ ~mid.raised
               /\ get_constellation_map(arg.mod_type).n_bits = 2 * arg.mod_type
               /\ Len(mid.symbols) = CeilDiv(Len(arg.bits), 2 * arg.mod_type)
          ELSE mid.raised /\ mid.symbols = <<>>
    /\ pc = "demapped" =>
          IF res.mod_type \in SupportedMods
          THEN ~res.raised /\ Len(res.bits) = 2 * res.mod_type * Len(mid.symbols)
          ELSE res.raised /\ res.bits = <<>>

\* The demapper refused an index above 3 for symbols that were there to demap.
C12_Witness ==
    /\ pc = "demapped"
    /\ res.mod_type > 3
    /\ Len(mid.symbols) >= 2
    /\ res.raised
    /\ res.bits = <<>>

(***************************************************************************)
(* C16.  Constellation round trip: for each modulation (k = 2, 4, 6) and   *)
(* every bit array, demapping the mapped symbols with the same modulation  *)
(* gives the bits followed by (k - len mod k) mod k zero bits: the mapper  *)
(* emits ceil(len / k) symbols and the demapper k bits per symbol.         *)
(***************************************************************************)
C16_ConstellationRoundTrip ==
    (pc = "demapped" /\ res.mod_type \in SupportedMods) =>
        LET k == 2 * res.mod_type
            n == Len(arg.bits)
        IN  /\ Len(mid.symbols) = CeilDiv(n, k)
            /\ Len(res.bits) = k * Len(mid.symbols)
            /\ res.bits = arg.bits \o Zeros((k - (n % k)) % k)

\* 64-QAM, two symbols, the second one padded, a 1 among the bits.
C16_Witness ==
    /\ pc = "demapped"
    /\ res.mod_type = 3
    /\ Len(arg.bits) > 6
    /\ arg.bits[Len(arg.bits)] = 1
    /\ Len(mid.symbols) = 2
    /\ mid.symbols[1] # mid.symbols[2]
    /\ res.bits = arg.bits \o Zeros(12 - Len(arg.bits))

(***************************************************************************)
(* C17.  Trellis/encoder agreement: for each of the 64 states p and each   *)
(* input bit u, the trellis entry (next_state[p, u], out_bits[p, u]) is    *)
(* the next state and the 3 coded bits of one conv_encode step from p on   *)
(* u; no encode or decode call modifies the table.                         *)
(***************************************************************************)
EncoderStep == [p \in States |-> [u \in Bit |-> [next |-> EncNext(p, u), out |-> EncOut(p, u)]]]

C17_TrellisAgreesWithEncoder ==
    /\ DOMAIN trellis.next_state = States
    /\ DOMAIN trellis.out_bits = States
    /\ \A p \in States, u \in Bit :
          /\ trellis.next_state[p][u] = EncoderStep[p][u].next
          /\ trellis.out_bits[p][u] = EncoderStep[p][u].out

\* A tail-biting encode call of its last step's worth: the call starts in
\* the state of its m bits, and the first three coded bits it returns are
\* the table's entry for that state and the first input bit.
C17_Witness ==
    /\ pc = "encoded"
    /\ arg.tail_biting
    /\ Len(arg.bits) = memory
    /\ EncInitState(arg.bits, TRUE) # 0
    /\ SubSeq(res.out, 1, 3)
          = trellis.out_bits[EncInitState(arg.bits, TRUE)][arg.bits[1]]
    /\ trellis.out_bits[EncInitState(arg.bits, TRUE)][arg.bits[1]] # <<0, 0, 0>>

(***************************************************************************)
(* C18.  Viterbi add-compare-select: at every trellis step and for every   *)
(* state s the new metric is min(metric[p0] + dist0, metric[p1] + dist1)   *)
(* over the metrics of the previous step, and the recorded predecessor is  *)
(* p0 unless the p1 candidate is strictly smaller.                         *)
(***************************************************************************)
Min(a, b) == IF a <= b THEN a ELSE b

ExpectedOut(p, u) == EncoderStep[p][u].out

C18_AddCompareSelect ==
    [][(pc = "viterbi" /\ t' = t + 1) =>
          \A s \in States :
              LET y  == SubSeq(mid, 3 * t + 1, 3 * t + 3)
                  c0 == metrics[p0[s]] + Hamming(ExpectedOut(p0[s], u_for_state[s]), y)
                  c1 == metrics[p1[s]] + Hamming(ExpectedOut(p1[s], u_for_state[s]), y)
              IN  /\ metrics'[s] = Min(c0, c1)
                  /\ prev_state'[t'][s] = IF c1 < c0 THEN p1[s] ELSE p0[s]]_vars

\* A step whose two candidates are finite for some state: one state whose
\* candidates tie keeps p0, another takes p1 on a strictly smaller candidate.
C18_Witness ==
    /\ pc = "viterbi"
    /\ t > memory
    /\ \E s \in States :
          /\ cand[s][1] = cand[s][2] /\ cand[s][1] < INF
          /\ prev_state[t][s] = p0[s] /\ metrics[s] = cand[s][1]
    /\ \E s \in States :
          /\ cand[s][2] < cand[s][1] /\ cand[s][1] < INF
          /\ prev_state[t][s] = p1[s] /\ metrics[s] = cand[s][2]

(***************************************************************************)
(* C19.  Viterbi predecessors as stated: for every state s, s is reached   *)
(* from p0 on input bit 0 and from p1 on input bit 1, by the trellis       *)
(* next-state table.                                                       *)
(***************************************************************************)
C19_PredecessorsByInput ==
    \A s \in States :
        /\ trellis.next_state[p0[s]][0] = s
        /\ trellis.next_state[p1[s]][1] = s

(***************************************************************************)
(* C19, amended.  For every state s the two predecessors are p0, whose     *)
(* last bit is 0, and p1 = p0 + 1, whose last bit is 1; s is reached from  *)
(* both on the same input bit, the first bit of s, and from no other state *)
(* or input.  Every predecessor the decoder records is one of the two.     *)
(***************************************************************************)
C19_PredecessorsByLastBit ==
    /\ \A s \in States :
          /\ p0[s] % 2 = 0
          /\ p1[s] = p0[s] + 1
          /\ trellis.next_state[p0[s]][u_for_state[s]] = s
          /\ trellis.next_state[p1[s]][u_for_state[s]] = s
    /\ (pc = "viterbi" /\ t = 0) =>
          \A s \in States :
              {pu \in States \X Bit : trellis.next_state[pu[1]][pu[2]] = s}
                  = {<<p0[s], u_for_state[s]>>, <<p1[s], u_for_state[s]>>}
    /\ (pc = "viterbi" /\ t >= 1) =>
          \A s \in States :
              /\ prev_state[t][s] \in {p0[s], p1[s]}
              /\ trellis.next_state[prev_state[t][s]][u_for_state[s]] = s

\* The decoder has recorded p0 as the predecessor of a state that is entered
\* on input bit 1.
C19_Witness ==
    /\ pc = "viterbi"
    /\ t >= 1
    /\ \E s \in States :
          /\ u_for_state[s] = 1
          /\ prev_state[t][s] = p0[s]
          /\ trellis.next_state[p0[s]][1] = s
          /\ trellis.next_state[p0[s]][0] # s

(***************************************************************************)
(* C15.  Channel impulse response: for every number of taps >= 1,          *)
(* apply_rayleigh returns an impulse response of exactly that many taps    *)
(* whose energy, the sum of |h_i|^2, is 1; for one tap it is [1].          *)
(***************************************************************************)
C15_ImpulseResponse ==
    pc = "channel_applied" =>
        /\ arg.num_taps >= 1
        /\ Len(mid.h.num) = arg.num_taps
        /\ mid.h.sq > 0
        /\ SumSq(mid.h.num) = mid.h.sq
        /\ arg.num_taps = 1 => (mid.h.num = <<1>> /\ mid.h.sq = 1)

\* More taps asked for than the fixed shape has: the last one is zero.
C15_Witness ==
    /\ pc = "channel_applied"
    /\ arg.num_taps > Len(base_h)
    /\ mid.h.num[arg.num_taps] = 0
    /\ mid.h.num[2] # mid.h.num[1]
    /\ mid.h.sq > 1

(***************************************************************************)
(* C20.  Equalizer divisor selection: the received symbol at position i    *)
(* (from 0, any number of blocks, a trailing partial block included) is    *)
(* divided by the channel frequency response at subcarrier 1 + (i mod nc), *)
(* a response of magnitude below 1e-10 being replaced by 1e-10; the output *)
(* is as long as the input.                                                *)
(***************************************************************************)
C20_EqualizerDivisor ==
    pc = "equalized" =>
        LET rx == arg.rx_freq_symbols
            H  == fft(PadOrCrop(arg.h.num, arg.n_fft), arg.n_fft)
        IN  /\ Len(res.symbols) = Len(rx)
            /\ \A i \in 0..(Len(rx) - 1) :
                  LET Hk == H[1 + (i % arg.nc) + 1]
                      q  == res.symbols[i + 1]
                  IN  /\ q.num = rx[i + 1]
                      /\ q.den.floor = (Hk = CxZero)
                      /\ ~q.den.floor => q.den.z = Hk

\* Two blocks, the second one partial; one carrier is faded out and gets the
\* threshold, another one keeps its response.
C20_Witness ==
    /\ pc = "equalized"
    /\ Len(arg.rx_freq_symbols) > arg.nc
    /\ Len(arg.rx_freq_symbols) % arg.nc # 0
    /\ \E i \in 1..Len(res.symbols) : i > arg.nc /\ res.symbols[i].den.floor
    /\ \E i \in 1..Len(res.symbols) : ~res.symbols[i].den.floor /\ res.symbols[i].den.z # Cx(1, 0)

(***************************************************************************)
(* C13.  End-to-end length normalisation: in run_image_transmission and    *)
(* calculate_ber_curve, with FEC on or off and whatever the channel and    *)
(* the decoder deliver, the bit array compared with the original has       *)
(* exactly as many bits as the original raw bit array.                     *)
(***************************************************************************)
C13_LengthNormalized ==
    /\ pc = "run_metrics" => Len(arg.rx_bits) = Len(arg.tx_bits_raw)
    /\ (pc = "run_returned" /\ "tx_bits_raw" \in DOMAIN arg /\ "rx_bits" \in DOMAIN arg) =>
          /\ Len(arg.rx_bits) = Len(arg.tx_bits_raw)
          /\ "raised" \notin DOMAIN res
          /\ "success" \in DOMAIN res => res.success

\* FEC on, the demapper has delivered more bits than were sent, the channel
\* has left errors the decoder could not remove, and the CRC comparison fails.
C13_Witness ==
    /\ pc = "run_metrics"
    /\ arg.enable_fec
    /\ Len(arg.rx_bits_demapped) > Len(arg.tx_bits)
    /\ ~arg.crc_ok
    /\ arg.rx_bits # arg.tx_bits_raw
    /\ Len(arg.rx_bits) = img_size * img_size * 8

(***************************************************************************)
(* C14.  Stage ordering as stated: in a transmission the stages run        *)
(* strictly in the order constellation mapping, scrambling, channel        *)
(* encoding, OFDM modulation, channel, OFDM demodulation, equalization,    *)
(* channel decoding, descrambling, constellation demapping.                *)
(***************************************************************************)
StatedOrder ==
    <<"constellation mapping", "scrambling", "channel encoding", "OFDM modulation",
      "channel", "OFDM demodulation", "equalization", "channel decoding",
      "descrambling", "constellation demapping">>

Rank(order, stage) == CHOOSE i \in 1..Len(order) : order[i] = stage

InOrder(log, order) ==
    \A i \in 1..(Len(log) - 1) : Rank(order, log[i]) < Rank(order, log[i + 1])

CodeOrder ==
    <<"channel encoding", "scrambling", "constellation mapping", "OFDM modulation",
      "channel", "OFDM demodulation", "equalization", "constellation demapping",
      "descrambling", "channel decoding">>

StagesOf(enable_fec) ==
    SelectSeq(CodeOrder,
              LAMBDA st : enable_fec \/ st \notin {"channel encoding", "channel decoding"})

C22_OfdmBlockFraming ==
    pc = "modulated" =>
        LET n  == Len(arg.symbols)
            nb == mid.num_blocks
        IN  /\ arg.nc < arg.n_fft
            /\ nb * arg.nc >= n /\ (nb - 1) * arg.nc < n /\ nb >= 0
            /\ Len(mid.signal) = nb * arg.n_fft
            /\ DOMAIN mid.ifft_input = 0..(nb - 1)
            /\ \A i \in 0..(nb - 1) :
                  LET X == mid.ifft_input[i]
                      time_block == SubSeq(mid.signal, i * arg.n_fft + 1, (i + 1) * arg.n_fft)
                  IN  /\ Len(X) = arg.n_fft
                      /\ X[0 + 1] = CxZero
                      /\ \A k \in 1..arg.nc :
                            X[k + 1] = IF i * arg.nc + k <= n
                                       THEN arg.symbols[i * arg.nc + k] ELSE CxZero
                      /\ \A k \in (arg.nc + 1)..(arg.n_fft - 1) : X[k + 1] = CxZero
                      /\ [k \in 1..arg.n_fft |->
                             CxOver(fft(time_block, arg.n_fft)[k], Sqrt(arg.n_fft))] = X

\* Two blocks, the second one partial, and a carrier above nc left empty.
C22_Witness ==
    /\ pc = "modulated"
    /\ mid.num_blocks = 2
    /\ Len(arg.symbols) % arg.nc # 0
    /\ arg.nc + 1 < arg.n_fft
    /\ mid.ifft_input[1][2] = arg.symbols[arg.nc + 1]
    /\ mid.ifft_input[1][arg.nc + 1] = CxZero
    /\ Len(mid.signal) = 2 * arg.n_fft

(***************************************************************************)
(* C25.  Channel output length as stated: for every input signal and every *)
(* number of taps >= 1, apply_rayleigh returns a signal of exactly as many *)
(* samples as the input signal.                                            *)
(***************************************************************************)
C25_ChannelLengthEverySignal ==
    /\ pc # "channel_raised"
    /\ pc = "channel_applied" => Len(mid.signal) = Len(arg.signal)

(***************************************************************************)
(* C25, amended.  For every input signal that is not empty and every       *)
(* number of taps >= 1, the signal apply_rayleigh returns has exactly as   *)
(* many samples as the input signal (the full convolution, of len + taps   *)
(* - 1 samples, is cut to the first len), so a signal of num_blocks *      *)
(* (n_fft + cp_len) samples is still split by remove_cyclic_prefix into    *)
(* num_blocks whole blocks.  On an empty signal the convolution raises.    *)
(***************************************************************************)
C25_ChannelLengthNonEmpty ==
    /\ pc = "channel_raised" => (Len(arg.signal) = 0 /\ mid.raised)
    /\ pc = "channel_applied" =>
          /\ Len(arg.signal) > 0
          /\ ~mid.raised
          /\ Len(mid.signal) = Len(arg.signal)
          /\ LET full == ConvolveFull(arg.signal, mid.h.num)
             IN  /\ Len(full) = Len(arg.signal) + arg.num_taps - 1
                 /\ \A n \in 1..Len(arg.signal) :
                       \E z \in NoiseSamples : mid.signal[n] = CxAdd(full[n], z)
    /\ pc = "channel_cp_removed" =>
          LET block_len == res.n_fft + res.cp_len
          IN  /\ Len(res.signal) = (Len(arg.signal) \div block_len) * res.n_fft
              /\ \A num_blocks \in 0..Len(arg.signal) :
                    Len(arg.signal) = num_blocks * block_len =>
                        Len(res.signal) = num_blocks * res.n_fft

\* More taps than samples: the tail that was cut is longer than the signal,
\* and the receiver still finds two whole blocks.
C25_Witness ==
    /\ pc = "channel_cp_removed"
    /\ arg.num_taps > Len(arg.signal) + 1
    /\ Len(arg.signal) = 2 * (res.n_fft + res.cp_len)
    /\ Len(res.signal) = 2 * res.n_fft
    /\ arg.signal[1] # CxZero
    /\ mid.signal # arg.signal

C23_ReportedCrcStatus ==
    /\ (pc = "run_returned" /\ arg.fn = "run_image_transmission" /\ res.success) =>
          LET decoded == arg.rx_bits_after_viterbi
          IN  res.info.crc =
                  IF ~arg.enable_fec THEN TRUE
                  ELSE IF Len(decoded) >= 24
                  THEN SubSeq(decoded, Len(decoded) - 23, Len(decoded))
                          = SubSeq(arg.tx_bits_crc, Len(arg.tx_bits_crc) - 23,
                                   Len(arg.tx_bits_crc))
                  ELSE FALSE
    /\ (pc = "run_decode" /\ arg.fn = "run_image_transmission" /\ arg.enable_fec) =>
          \A n \in 0..(3 * 23 + 2) :
              ~RxDecoded(arg.fn, SubSeq(arg.rx_bits_coded, 1, n), arg.tx_bits_raw,
                         arg.tx_bits_crc, TRUE).crc_ok

\* The link made no error: crc_check has failed on the decoded bits, and the
\* comparison with the transmitted CRC bits has made the reported status OK.
C23_Witness ==
    /\ pc = "run_returned"
    /\ arg.fn = "run_image_transmission"
    /\ arg.enable_fec
    /\ res.success
    /\ Len(arg.rx_bits_after_viterbi) >= 24
    /\ ~arg.crc_check_ok
    /\ res.info.crc
    /\ \E i \in 1..Len(arg.tx_bits_raw) : arg.tx_bits_raw[i] = 1

(***************************************************************************)
(* C26.  Error-free end-to-end recovery: when the bits the demapper        *)
(* delivers are the bits the mapper was given, the receive chain of        *)
(* run_image_transmission (truncate to the transmitted length, descramble, *)
(* and with FEC decode and strip the CRC) gives back exactly the raw bits, *)
(* with no bit error, with FEC on and with FEC off; with FEC on the        *)
(* reported CRC status is OK.                                              *)
(***************************************************************************)
C26_ErrorFreeRecovery ==
    pc = "link_received" =>
        /\ SubSeq(mid.rx_bits_demapped, 1, Len(arg.tx_bits)) = arg.tx_bits
        /\ res.rx_bits = arg.tx_bits_raw
        /\ res.ber.errors = 0
        /\ res.ber.of = Len(arg.tx_bits_raw)
        /\ res.crc_ok
        /\ arg.enable_fec =>
              /\ Len(arg.tx_bits) = 3 * (Len(arg.tx_bits_raw) + 24 + memory)
              /\ mid.rx_bits_after_viterbi = arg.tx_bits_crc
        /\ ~arg.enable_fec => Len(arg.tx_bits) = Len(arg.tx_bits_raw)

\* FEC on, raw bits with a 1, scrambled bits that differ from the coded
\* ones, and a padding bit after them.
C26_Witness ==
    /\ pc = "link_received"
    /\ arg.enable_fec
    /\ Len(arg.tx_bits_raw) >= 2
    /\ \E i \in 1..Len(arg.tx_bits_raw) : arg.tx_bits_raw[i] = 1
    /\ arg.tx_bits # arg.tx_bits_coded
    /\ Len(mid.rx_bits_demapped) > Len(arg.tx_bits)
    /\ res.rx_bits = arg.tx_bits_raw
    /\ res.crc_ok

(***************************************************************************)
(* C27.  Path-metric invariant: after every trellis step t a state's       *)
(* metric is at most 3 * t if the state is reachable from state 0 in t     *)
(* steps, and lies between INF and INF + 3 * m otherwise; so no candidate  *)
(* metric leaves the signed 32-bit range, state 0 always has a finite      *)
(* metric, and the traceback from state 0 only follows predecessors whose  *)
(* metric is finite.                                                       *)
(***************************************************************************)
\* The states the encoder can be in after tt steps from state 0.
RECURSIVE ReachedIn(_)
ReachedIn(tt) ==
    IF tt = 0 THEN {0}
    ELSE {TRELLIS_NEXT[p][u] : p \in ReachedIn(tt - 1), u \in Bit}

Reached(tt) == ReachedIn(IF tt < memory THEN tt ELSE memory)

MaxInt32 == 2147483647

\* The states the traceback visits, from step tt down to step 0.
RECURSIVE TracePath(_, _, _)
TracePath(prev, tt, state) ==
    IF tt = 0 THEN <<state>>
    ELSE <<state>> \o TracePath(prev, tt - 1, prev[tt][state])

C27_PathMetrics ==
    /\ pc \in {"viterbi", "decoded"} =>
          /\ \E reached \in {Reached(t)} :
                \A s \in States :
                    IF s \in reached
                    THEN 0 <= metrics[s] /\ metrics[s] <= 3 * t
                    ELSE INF <= metrics[s] /\ metrics[s] <= INF + 3 * memory
          /\ metrics[0] < INF
          /\ t >= 1 =>
                \A s \in States :
                    /\ 0 <= cand[s][1] /\ cand[s][1] <= INF + 3 * memory + 3
                    /\ 0 <= cand[s][2] /\ cand[s][2] <= INF + 3 * memory + 3
                    /\ INF + 3 * memory + 3 <= MaxInt32
          /\ t >= 1 =>
                \E now \in {Reached(t)}, before \in {Reached(t - 1)} :
                    \A s \in now : prev_state[t][s] \in before
    /\ pc = "decoded" =>
          LET path == TracePath(prev_state, t, 0)
          IN  /\ Len(path) = t + 1
              /\ path[t + 1] = res.start
              /\ \A k \in 0..t : path[t + 1 - k] \in Reached(k)

\* A step at which some states cannot be reached yet: one of them has a
\* metric above INF, computed from a candidate above INF, and a state that
\* can be reached has a metric above 0.
C27_Witness ==
    /\ pc = "viterbi"
    /\ t >= 2 /\ t < memory
    /\ \E s \in States \ Reached(t) :
          /\ metrics[s] > INF + 3
          /\ cand[s][1] > INF + 3 /\ cand[s][2] > INF + 3
    /\ \E s \in Reached(t) : s # 0 /\ metrics[s] > 0 /\ metrics[s] < INF
    /\ metrics[0] < INF

(***************************************************************************)
(* C24.  Scrambler under interleaving: when two apply_scrambling calls, or *)
(* an apply_scrambling call and a noise draw, are interleaved statement by *)
(* statement, each scrambler call returns its input XOR-ed with the        *)
(* sequence of its own seed and length, and when both calls have finished  *)
(* the generator state is what it would be had no scrambler call run.      *)
(***************************************************************************)
\* What a call returns when it runs alone.
OwnSequence(call) == RandInt(RngSeed(call.seed), Len(call.bits)).bits

ReturnsOwnXor(call) ==
    call.out = [k \in 1..Len(call.bits) |-> XorInt(call.bits[k], OwnSequence(call)[k])]

\* The generator state the calls leave when no scrambler call touches it.
StateWithoutScrambler ==
    IF mid[2].kind = "apply_awgn" THEN AwgnDraw(arg.rng_before, mid[2].n)
    ELSE arg.rng_before

C24_ScramblerInterleaved ==
    pc = "threads" =>
        /\ \A i \in Threads :
              (mid[i].kind = "apply_scrambling" /\ mid[i].at = "done") =>
                  ReturnsOwnXor(mid[i])
        /\ (\A i \in Threads : mid[i].at = "done") => rng = StateWithoutScrambler

\* What does hold: all of it, when neither call has begun while the other was
\* running.
C24_ScramblerNotOverlapped ==
    (pc = "threads" /\ ~arg.overlapped) =>
        /\ \A i \in Threads :
              (mid[i].kind = "apply_scrambling" /\ mid[i].at = "done") =>
                  ReturnsOwnXor(mid[i])
        /\ (\A i \in Threads : mid[i].at = "done") => rng = StateWithoutScrambler

(***************************************************************************)
(* C28.  Orchestration error outcome: run_image_transmission never lets an *)
(* exception escape.  When a stage raises (the image is missing, the       *)
(* modulation index is unsupported, an array has the wrong shape) the call *)
(* returns success = FALSE with the error, and otherwise it returns        *)
(* success = TRUE with the BER and both images.  Nothing is returned       *)
(* before the call ends.                                                   *)
(***************************************************************************)
\* The stages of a call that raise on its arguments: image_to_bits on a
\* missing image, map_bits_to_symbols on an unsupported modulation index.
StageRaises == ~arg.image.found \/ arg.mod_type \notin SupportedMods

C28_OrchestrationOutcome ==
    (pc \notin {"idle"} /\ arg.op = "run" /\ arg.fn = "run_image_transmission") =>
        IF pc = "run_returned"
        THEN /\ DOMAIN res \in {{"success", "error"},
                                  {"success", "tx_image", "rx_image", "ber", "info"}}
             /\ res.success = ~StageRaises
             /\ res.success =>
                   /\ res.tx_image = arg.tx_bits_raw
                   /\ res.ber = BitErrorRate(arg.tx_bits_raw, arg.rx_bits)
                   /\ res.rx_image = bits_to_image(arg.rx_bits, img_size).img
             /\ ~res.success =>
                   res.error = IF ~arg.image.found THEN "FileNotFoundError" ELSE "ValueError"
        ELSE res = <<>>

\* A call has returned the failure of a stage after the first: the image was
\* read, coded and scrambled, and the mapper refused the modulation index.
C28_Witness ==
    /\ pc = "run_returned"
    /\ arg.fn = "run_image_transmission"
    /\ arg.image.found
    /\ arg.mod_type \notin SupportedMods
    /\ res = [success |-> FALSE, error |-> "ValueError"]
    /\ mid # <<>>

====
